---- MODULE Spec2Model ----
(***************************************************************************)
(* Yacht Listing Import System v2.0 (docs/list-yacht.js).                  *)
(*                                                                         *)
(* Representation.                                                         *)
(*   - A JS string that the code inspects character by character (titles,  *)
(*     price texts) is a sequence of one-character strings; a string that  *)
(*     is only compared or tested for emptiness (year, length, type,       *)
(*     location, urls, source tags) is a TLA+ string.                      *)
(*     A character outside ASCII is written by its code point, "U+20AC". *)
(*   - A JS number holding an amount of money is a record [kind, neg, w,   *)
(*     c]: sign, whole part and hundredths (1234.56 is w = 1234, c = 56);  *)
(*     every amount the price parser can return has at most two decimals.  *)
(*     null and NaN are records of the same shape with another kind.       *)
(***************************************************************************)
EXTENDS Integers, Sequences, FiniteSets, TLC

VARIABLES
    \* ---- pure-function harness: deduplicateYachts
    dIn, dOut, dOut2, dPc,
    \* ---- pure-function harness: calculateConfidence
    cYacht, cPrev, cOverall, cPc,
    \* ---- parseYachtListings: the document, the value returned, the
    \* module-level lastParseDebug
    pDoc, pResult, pPc,
    \* ---- the page: the module-level state of list-yacht.js
    parsedYachts, totalYachtsFound, selectedYachts, currentEditIndex, lastParseDebug,
    \* the fetch button's disabled flag, the clock read by Date.now(), and the
    \* handleFetch runs with their local variables
    disabled, clock, runs,
    \* the number of runs started and of clicks on the results so far
    started, clicks,
    \* ---- pure-function harness: validateYacht, extractPrice, extractSpecs
    fArg, fRet, fPc

dedupVars == <<dIn, dOut, dOut2, dPc>>
confVars == <<cYacht, cPrev, cOverall, cPc>>
parseVars == <<pDoc, pResult, pPc>>
stateVars == <<parsedYachts, totalYachtsFound, selectedYachts, currentEditIndex>>
pageVars == <<stateVars, lastParseDebug, disabled, clock, runs, started, clicks>>
fnVars == <<fArg, fRet, fPc>>
vars == <<dedupVars, confVars, parseVars, pageVars, fnVars>>
notDedup == <<confVars, parseVars, pageVars, fnVars>>
notConf == <<dedupVars, parseVars, pageVars, fnVars>>
notParse == <<dedupVars, confVars, stateVars, disabled, clock, runs, started, clicks, fnVars>>
notPage == <<dedupVars, confVars, parseVars, fnVars>>
notFn == <<dedupVars, confVars, parseVars, pageVars>>

----------------------------------------------------------------------------
\* CONFIG (list-yacht.js 10-30)

MIN_LISTING_CONFIDENCE == 40

\* JS numbers: sign, whole part, hundredths
Num(neg, w, c) == [kind |-> "number", neg |-> neg, w |-> w, c |-> c]
N(w) == Num(FALSE, w, 0)
null == [kind |-> "null", neg |-> FALSE, w |-> 0, c |-> 0]
NaN == [kind |-> "NaN", neg |-> FALSE, w |-> 0, c |-> 0]

\* JS truthiness of a number-or-null value (null, NaN and 0 are falsy)
Truthy(n) == n.kind = "number" /\ (n.w # 0 \/ n.c # 0)

\* n > 0, and n >= k, n <= k for a whole k > 0 (false for null and NaN)
Positive(n) == Truthy(n) /\ ~n.neg
AtLeast(n, k) == n.kind = "number" /\ ~n.neg /\ n.w >= k
AtMost(n, k) == n.kind = "number" /\ (n.neg \/ n.w < k \/ (n.w = k /\ n.c = 0))

----------------------------------------------------------------------------
\* Strings as sequences of characters

UpperChars == <<"A", "B", "C", "D", "E", "F", "G", "H", "I", "J", "K", "L", "M",
                "N", "O", "P", "Q", "R", "S", "T", "U", "V", "W", "X", "Y", "Z", "U+00C7">>

LowerChars == <<"a", "b", "c", "d", "e", "f", "g", "h", "i", "j", "k", "l", "m",
                "n", "o", "p", "q", "r", "s", "t", "u", "v", "w", "x", "y", "z", "U+00E7">>

\* String.prototype.toLowerCase on one character
LowerChar(c) ==
    IF \E i \in 1..Len(UpperChars) : UpperChars[i] = c
    THEN LowerChars[CHOOSE i \in 1..Len(UpperChars) : UpperChars[i] = c]
    ELSE c

toLowerCase(s) == [i \in 1..Len(s) |-> LowerChar(s[i])]

IsSpace(c) == c \in {" ", "\n", "\t", "\r"}

RECURSIVE trimStart(_)
trimStart(s) ==
    IF s # <<>> /\ IsSpace(Head(s)) THEN trimStart(Tail(s)) ELSE s

RECURSIVE trimEnd(_)
trimEnd(s) ==
    IF s # <<>> /\ IsSpace(s[Len(s)]) THEN trimEnd(SubSeq(s, 1, Len(s) - 1)) ELSE s

\* String.prototype.trim
trim(s) == trimEnd(trimStart(s))

----------------------------------------------------------------------------
\* Records

\* createEmptyYacht(index): the id is the pair (Date.now(), index);
\* detailUrl is not set (undefined), written "".
createEmptyYacht(now, index) ==
    [ id |-> <<now, index>>,
      title |-> <<>>,
      price |-> <<>>,
      priceRaw |-> null,
      year |-> <<>>,
      length |-> "",
      type |-> "",
      location |-> "",
      images |-> <<>>,
      detailUrl |-> "",
      sourceUrl |-> "",
      source |-> "generic",
      confidence |-> [overall |-> 50],
      issues |-> <<>> ]

----------------------------------------------------------------------------
\* Price parsing (PRICE_PATTERNS, extractPrice, formatPrice)

MIN_YACHT_PRICE == 5000
MAX_YACHT_PRICE == 100000000

Digits == <<"0", "1", "2", "3", "4", "5", "6", "7", "8", "9">>

IsDigit(c) == \E d \in 1..10 : Digits[d] = c
DigitVal(c) == (CHOOSE d \in 1..10 : Digits[d] = c) - 1

\* the character classes of the patterns: \s, \d, [\d,], [\d,.\s], [:\s]
InClass(cls, c) ==
    CASE cls = "\\s" -> IsSpace(c)
      [] cls = "\\d" -> IsDigit(c)
      [] cls = "[\\d,]" -> IsDigit(c) \/ c = ","
      [] cls = "[\\d,.\\s]" -> IsDigit(c) \/ c \in {",", "."} \/ IsSpace(c)
      [] cls = "[:\\s]" -> c = ":" \/ IsSpace(c)
      [] cls = "," -> c = ","
      [] cls = "." -> c = "."
      [] OTHER -> FALSE

\* the index just after the longest run of characters of a class starting at i
RECURSIVE RunEnd(_, _, _)
RunEnd(s, i, cls) ==
    IF i >= 1 /\ i <= Len(s) /\ InClass(cls, s[i]) THEN RunEnd(s, i + 1, cls) ELSE i

\* whether the literal lit occurs at index i of s (case-insensitive when ci)
LitAt(s, i, lit, ci) ==
    /\ i >= 1
    /\ i + Len(lit) - 1 <= Len(s)
    /\ \A k \in 1..Len(lit) :
          IF ci THEN LowerChar(s[i + k - 1]) = LowerChar(lit[k]) ELSE s[i + k - 1] = lit[k]

\* a case-insensitive regex test for a literal
includesCI(s, lit) == \E i \in 1..(Len(s) + 1) : LitAt(s, i, lit, TRUE)

USD == <<"U", "S", "D">>
EUR == <<"E", "U", "R">>
GBP == <<"G", "B", "P">>
DOLLAR == <<"d", "o", "l", "l", "a", "r">>
EURO == <<"e", "u", "r", "o">>
PRICE == <<"p", "r", "i", "c", "e">>
ASKING == <<"a", "s", "k", "i", "n", "g">>

\* the currency signs as the source file spells them (lines 50-54, 783); a
\* character outside ASCII is written by its code point
EURO_SIGN == <<"U+201A", "U+00C7", "U+00A8">>
POUND_SIGN == <<"U+00AC", "U+00A3">>

\* a regex match: its group, and the indices where the group starts and
\* where it has ended
NoMatch == [ok |-> FALSE, cap |-> <<>>, from |-> 0, to |-> 0]
Match(s, from, to) == [ok |-> TRUE, cap |-> SubSeq(s, from, to - 1), from |-> from, to |-> to]

\* \s*(<cls>+) at index b.  [\d,.\s] also takes blanks, so when nothing but
\* blanks is there the group is the last blank \s* gives back.
AmountAfter(s, b, cls) ==
    LET amount(j, k) ==
            IF k > j THEN Match(s, j, k)
            ELSE IF cls = "[\\d,.\\s]" /\ j > b THEN Match(s, j - 1, j)
            ELSE NoMatch
        amountFrom(j) == amount(j, RunEnd(s, j, cls))
    IN  amountFrom(RunEnd(s, b, "\\s"))

\* (?:\.\d{2})? after the digits of a group
WithCents(s, m) ==
    IF m.ok /\ m.to + 2 <= Len(s) /\ s[m.to] = "." /\ IsDigit(s[m.to + 1]) /\ IsDigit(s[m.to + 2])
    THEN Match(s, m.from, m.to + 3)
    ELSE m

\* <symbol>\s*(<cls>+) at index i; with cents the group is
\* ([\d,]+(?:\.\d{2})?)
SymbolAmountAt(s, i, symbol, cls, cents) ==
    LET amountOf(m) == IF cents THEN WithCents(s, m) ELSE m
    IN  IF ~LitAt(s, i, symbol, FALSE) THEN NoMatch
        ELSE amountOf(AmountAfter(s, i + Len(symbol), cls))

\* <word>\s*<req><opt>?\s*(<cls>+) at index i, case-insensitive
WordAmountAt(s, i, word, req, opt, cls) ==
    LET afterWord(a) ==
            IF ~LitAt(s, a, req, TRUE) THEN NoMatch
            ELSE AmountAfter(s, a + Len(req) + (IF LitAt(s, a + Len(req), opt, TRUE) THEN Len(opt) ELSE 0),
                             cls)
    IN  IF ~LitAt(s, i, word, TRUE) THEN NoMatch
        ELSE afterWord(RunEnd(s, i + Len(word), "\\s"))

\* (<cls>+)\s*(?:<word1>|<word2>) at index i, case-insensitive
AmountWordAt(s, i, cls, word1, word2) ==
    LET wordAt(k, w) ==
            IF k > i /\ (LitAt(s, w, word1, TRUE) \/ LitAt(s, w, word2, TRUE))
            THEN Match(s, i, k) ELSE NoMatch
        amountTo(k) == wordAt(k, RunEnd(s, k, "\\s"))
    IN  amountTo(RunEnd(s, i, cls))

\* (?:price|asking)[:\s]*\$?\s*([\d,]+) at index i, case-insensitive
PriceWordAt(s, i) ==
    LET afterColon(a) == AmountAfter(s, IF LitAt(s, a, <<"$">>, FALSE) THEN a + 1 ELSE a, "[\\d,]")
        afterWord(word) ==
            IF word = <<>> THEN NoMatch ELSE afterColon(RunEnd(s, i + Len(word), "[:\\s]"))
    IN  afterWord(IF LitAt(s, i, PRICE, TRUE) THEN PRICE
                  ELSE IF LitAt(s, i, ASKING, TRUE) THEN ASKING ELSE <<>>)

\* PRICE_PATTERNS: the shape of each regex with its literals, the class of
\* its group, and the currency
Pattern(shape, lit1, lit2, lit3, cls, currency) ==
    [shape |-> shape, lit1 |-> lit1, lit2 |-> lit2, lit3 |-> lit3, cls |-> cls, currency |-> currency]

PRICE_PATTERNS ==
    << Pattern("symbol cents", <<"$">>, <<>>, <<>>, "[\\d,]", "USD"),
       Pattern("word", USD, <<>>, <<"$">>, "[\\d,]", "USD"),
       Pattern("amount word", USD, DOLLAR, <<>>, "[\\d,]", "USD"),
       Pattern("symbol", EURO_SIGN, <<>>, <<>>, "[\\d,.\\s]", "EUR"),
       Pattern("word", EUR, SubSeq(EURO_SIGN, 1, 2), SubSeq(EURO_SIGN, 3, 3), "[\\d,.\\s]", "EUR"),
       Pattern("amount word", EUR, EURO, <<>>, "[\\d,.\\s]", "EUR"),
       Pattern("symbol", POUND_SIGN, <<>>, <<>>, "[\\d,]", "GBP"),
       Pattern("word", GBP, SubSeq(POUND_SIGN, 1, 1), SubSeq(POUND_SIGN, 2, 2), "[\\d,]", "GBP"),
       Pattern("price word", <<>>, <<>>, <<>>, "[\\d,]", "USD") >>

\* pattern.regex tried at index i of text
PatternAt(pattern, text, i) ==
    CASE pattern.shape \in {"symbol", "symbol cents"} ->
             SymbolAmountAt(text, i, pattern.lit1, pattern.cls, pattern.shape = "symbol cents")
      [] pattern.shape = "word" ->
             WordAmountAt(text, i, pattern.lit1, pattern.lit2, pattern.lit3, pattern.cls)
      [] pattern.shape = "amount word" ->
             AmountWordAt(text, i, pattern.cls, pattern.lit1, pattern.lit2)
      [] OTHER -> PriceWordAt(text, i)

\* text.match(pattern.regex): the leftmost match
PatternMatch(pattern, text) ==
    LET leftmost(at) ==
            IF \E i \in DOMAIN at : at[i].ok
            THEN at[CHOOSE i \in DOMAIN at : at[i].ok /\ \A j \in 1..(i - 1) : ~at[j].ok]
            ELSE NoMatch
    IN  leftmost([i \in 1..Len(text) |-> PatternAt(pattern, text, i)])

\* s.replace(/<class>/g, '')
RemoveAll(s, cls) == SelectSeq(s, LAMBDA c : ~InClass(cls, c))

\* the number a run of digits denotes
RECURSIVE DigitsVal(_)
DigitsVal(s) == IF s = <<>> THEN 0 ELSE 10 * DigitsVal(SubSeq(s, 1, Len(s) - 1)) + DigitVal(s[Len(s)])

\* parseFloat: an optional sign, digits, an optional dot and digits; NaN
\* when no digit is found there.  Decimals after the second are cut: the
\* strings extractPrice passes have at most two.
parseFloat(str) ==
    LET number(neg, int, frac2) == Num(neg /\ (int # 0 \/ frac2 # 0), int, frac2)
        parts(neg, int, frac) ==
            IF int = <<>> /\ frac = <<>> THEN NaN
            ELSE number(neg, DigitsVal(int), DigitsVal(SubSeq(frac \o <<"0", "0">>, 1, 2)))
        digits(neg, s, i) ==
            parts(neg, SubSeq(s, 1, i - 1),
                  IF i <= Len(s) /\ s[i] = "." THEN SubSeq(s, i + 1, RunEnd(s, i + 1, "\\d") - 1) ELSE <<>>)
        unsigned(neg, s) == digits(neg, s, RunEnd(s, 1, "\\d"))
        signed(t) == unsigned(t # <<>> /\ t[1] = "-",
                              IF t # <<>> /\ t[1] \in {"-", "+"} THEN Tail(t) ELSE t)
    IN  signed(trimStart(str))

\* the decimal digits of a natural number
RECURSIVE toDigits(_)
toDigits(n) == IF n < 10 THEN <<Digits[n + 1]>> ELSE toDigits(n \div 10) \o <<Digits[(n % 10) + 1]>>

\* en-US grouping of a digit string
RECURSIVE group(_)
group(d) ==
    IF Len(d) <= 3 THEN d
    ELSE group(SubSeq(d, 1, Len(d) - 3)) \o <<",">> \o SubSeq(d, Len(d) - 2, Len(d))

CurrencySymbol(currency) ==
    IF currency = "EUR" THEN EURO_SIGN ELSE IF currency = "GBP" THEN POUND_SIGN ELSE <<"$">>

\* formatPrice(num, currency): toLocaleString('en-US', {maximumFractionDigits: 0})
formatPrice(num, currency) ==
    LET localeString(rounded) ==
            (IF num.neg /\ rounded > 0 THEN <<"-">> ELSE <<>>) \o group(toDigits(rounded))
    IN  IF ~Truthy(num) THEN <<>>
        ELSE CurrencySymbol(currency) \o localeString(IF num.c >= 50 THEN num.w + 1 ELSE num.w)

\* the number extractPrice reads out of a match: blanks and commas removed,
\* dots removed when the first dot has more than two characters after it
numStrOf(cap) ==
    LET european(numStr) ==
            /\ \E i \in 1..Len(numStr) : numStr[i] = "."
            /\ (CHOOSE i \in 1..Len(numStr) : numStr[i] = "." /\ \A j \in 1..(i - 1) : numStr[j] # ".") - 1
                   < Len(numStr) - 3
        cleaned(numStr) == IF european(numStr) THEN RemoveAll(numStr, ".") ELSE numStr
    IN  cleaned(RemoveAll(RemoveAll(cap, "\\s"), ","))

NoPrice == [raw |-> null, formatted |-> <<>>, currency |-> "null"]

\* the loop of extractPrice from PRICE_PATTERNS[n] on
RECURSIVE extractPriceFrom(_, _)
extractPriceFrom(text, n) ==
    LET priced(pattern, raw) ==
            IF raw # NaN /\ AtLeast(raw, 1000)
            THEN [raw |-> raw, formatted |-> formatPrice(raw, pattern.currency),
                  currency |-> pattern.currency]
            ELSE extractPriceFrom(text, n + 1)
        matched(pattern, match) ==
            IF match.ok THEN priced(pattern, parseFloat(numStrOf(match.cap)))
            ELSE extractPriceFrom(text, n + 1)
        tried(pattern) == matched(pattern, PatternMatch(pattern, text))
    IN  IF n > Len(PRICE_PATTERNS) THEN NoPrice ELSE tried(PRICE_PATTERNS[n])

extractPrice(text) == extractPriceFrom(text, 1)

----------------------------------------------------------------------------
\* Scoring, validation, deduplication

\* Math.round(x) for x = num / den, den > 0 (round half up)
MathRound(num, den) == (2 * num + den) \div (2 * den)

calculateConfidence_NoScoreForLocation(yacht) ==
    LET score ==
            (IF yacht.title # <<>> THEN 35 ELSE 0)
          + (IF Len(yacht.images) > 0 THEN 25 ELSE 0)
          + (IF Truthy(yacht.priceRaw) /\ Positive(yacht.priceRaw) THEN 15 ELSE 0)
          + (IF yacht.year # <<>> THEN 10 ELSE 0)
          + (IF yacht.length # "" THEN 5 ELSE 0)
          + (IF yacht.type # "" THEN 5 ELSE 0)
          + (IF yacht.source \in {"json-ld", "microdata", "red-ensign"} THEN 10 ELSE 0)
        maxScore == 35 + 25 + 15 + 10 + 5 + 5 + (IF yacht.location # "" THEN 10 ELSE 5)
    IN  MathRound(score * 100, maxScore)

calculateConfidence_KeepSeed(yacht) == yacht.confidence.overall

calculateConfidence(yacht) ==
    LET score ==
            (IF yacht.title # <<>> THEN 35 ELSE 0)
          + (IF Len(yacht.images) > 0 THEN 25 ELSE 0)
          + (IF Truthy(yacht.priceRaw) /\ Positive(yacht.priceRaw) THEN 15 ELSE 0)
          + (IF yacht.year # <<>> THEN 10 ELSE 0)
          + (IF yacht.length # "" THEN 5 ELSE 0)
          + (IF yacht.type # "" THEN 5 ELSE 0)
          + (IF yacht.location # "" THEN 5 ELSE 0)
          + (IF yacht.source \in {"json-ld", "microdata", "red-ensign"} THEN 10 ELSE 0)
        maxScore == 35 + 25 + 15 + 10 + 5 + 5 + 5
    IN  MathRound(score * 100, maxScore)

\* price strings the validator compares with
SeeDetails == <<"S", "e", "e", " ", "D", "e", "t", "a", "i", "l", "s">>
POA == <<"P", "O", "A">>
Sold == <<"S", "o", "l", "d">>

Issue(field, severity) == [field |-> field, severity |-> severity]

\* the price test as it would be if a price of 0 were an error
validateYacht_ZeroPriceIsError(yacht) ==
      (IF yacht.title = <<>> THEN <<Issue("title", "error")>> ELSE <<>>)
   \o (IF yacht.price = <<>> \/ yacht.priceRaw = N(0) THEN <<Issue("price", "error")>>
       ELSE IF yacht.price = SeeDetails \/ yacht.price = POA
            THEN <<Issue("price", "warning")>>
            ELSE <<>>)
   \o (IF Len(yacht.images) = 0 THEN <<Issue("images", "warning")>> ELSE <<>>)
   \o (IF yacht.year = <<>> THEN <<Issue("year", "warning")>> ELSE <<>>)
   \o (IF yacht.length = "" THEN <<Issue("length", "warning")>> ELSE <<>>)
   \o (IF yacht.type = "" THEN <<Issue("type", "warning")>> ELSE <<>>)
   \o (IF yacht.location = "" THEN <<Issue("location", "warning")>> ELSE <<>>)

validateYacht(yacht) ==
      (IF yacht.title = <<>> THEN <<Issue("title", "error")>> ELSE <<>>)
   \o (IF yacht.price = <<>> THEN <<Issue("price", "error")>>
       ELSE IF yacht.price = SeeDetails \/ yacht.price = POA \/ yacht.priceRaw = N(0)
            THEN <<Issue("price", "warning")>>
            ELSE <<>>)
   \o (IF Len(yacht.images) = 0 THEN <<Issue("images", "warning")>> ELSE <<>>)
   \o (IF yacht.year = <<>> THEN <<Issue("year", "warning")>> ELSE <<>>)
   \o (IF yacht.length = "" THEN <<Issue("length", "warning")>> ELSE <<>>)
   \o (IF yacht.type = "" THEN <<Issue("type", "warning")>> ELSE <<>>)
   \o (IF yacht.location = "" THEN <<Issue("location", "warning")>> ELSE <<>>)

\* `${(yacht.title || '').toLowerCase().trim()}|${yacht.priceRaw || 0}`
titleKey_NoLowerCase(yacht) ==
    <<trim(yacht.title), IF Truthy(yacht.priceRaw) THEN yacht.priceRaw ELSE N(0)>>

titleKey(yacht) ==
    <<trim(toLowerCase(yacht.title)), IF Truthy(yacht.priceRaw) THEN yacht.priceRaw ELSE N(0)>>

\* the filter callback of deduplicateYachts, run over yachts[i..] with the
\* two Sets seenUrls and seenTitles
RECURSIVE dedupFrom(_, _, _, _)
dedupFrom(yachts, i, seenUrls, seenTitles) ==
    IF i > Len(yachts) THEN <<>>
    ELSE LET yacht == yachts[i] IN
         IF yacht.detailUrl # ""
         THEN IF yacht.detailUrl \in seenUrls
              THEN dedupFrom(yachts, i + 1, seenUrls, seenTitles)
              ELSE <<yacht>> \o dedupFrom(yachts, i + 1, seenUrls \cup {yacht.detailUrl}, seenTitles)
         ELSE IF titleKey(yacht) \in seenTitles
              THEN dedupFrom(yachts, i + 1, seenUrls, seenTitles)
              ELSE <<yacht>> \o dedupFrom(yachts, i + 1, seenUrls, seenTitles \cup {titleKey(yacht)})

\* a loop that splices duplicates out of the array it is iterating over
deduplicateYachts_SpliceWhileIterating(yachts) ==
    LET RECURSIVE go(_, _, _)
        go(arr, i, seen) ==
            IF i > Len(arr) THEN arr
            ELSE LET k == IF arr[i].detailUrl # "" THEN <<"url", arr[i].detailUrl>>
                          ELSE <<"title", titleKey(arr[i])>>
                 IN  IF k \in seen
                     THEN go(SubSeq(arr, 1, i - 1) \o SubSeq(arr, i + 1, Len(arr)), i + 1, seen)
                     ELSE go(arr, i + 1, seen \cup {k})
    IN  go(yachts, 1, {})

deduplicateYachts(yachts) == dedupFrom(yachts, 1, {}, {})

----------------------------------------------------------------------------
\* Site validation

\* YACHT_KEYWORDS, in source order
YACHT_KEYWORDS ==
    <<"yacht", "yachts", "boat", "boats", "vessel", "vessels", "marine",
      "sailing", "sailboat", "motor yacht", "catamaran", "trimaran",
      "brokerage", "broker", "for sale", "buy", "sell",
      "length overall", "loa", "beam", "draft", "hull",
      "engine", "knots", "nautical", "marina", "cruiser",
      "sportfish", "trawler", "express", "flybridge", "cockpit",
      "galley", "cabin", "berth", "stateroom", "helm">>

INVENTORY_MARKERS == {"/boats/", "/yachts/", "/inventory/", "/listings/", "for sale", "brokerage"}

MIN_YACHT_KEYWORDS == 3

\* A page's html is known by the set of terms its lower-cased text includes:
\* lowerHtml.includes(term) is term \in html.
countYachtKeywords(html) ==
    LET found == SelectSeq(YACHT_KEYWORDS, LAMBDA keyword : keyword \in html)
    IN  [count |-> Len(found), found |-> found]

nullString == <<"null">>

\* validateYachtSite as it would be if the markers were tested first
validateYachtSite_MarkersFirst(html) ==
    LET k == countYachtKeywords(html)
        hasInventoryMarkers == \E m \in INVENTORY_MARKERS : m \in html
    IN  IF ~hasInventoryMarkers
        THEN [valid |-> FALSE,
              reason |-> <<"This doesn't appear to be a yacht listings page. Please navigate to the inventory or boats for sale page.">>,
              keywordsFound |-> k.found]
        ELSE IF k.count < MIN_YACHT_KEYWORDS
        THEN [valid |-> FALSE,
              reason |-> <<"This doesn't appear to be a yacht or boat sales website. Found only",
                           k.count, "yacht-related terms (minimum:", MIN_YACHT_KEYWORDS, ")">>,
              keywordsFound |-> k.found]
        ELSE [valid |-> TRUE, reason |-> nullString, keywordsFound |-> k.found]

validateYachtSite(html) ==
    LET k == countYachtKeywords(html)
        hasInventoryMarkers == \E m \in INVENTORY_MARKERS : m \in html
    IN  IF k.count < MIN_YACHT_KEYWORDS
        THEN [valid |-> FALSE,
              reason |-> <<"This doesn't appear to be a yacht or boat sales website. Found only",
                           k.count, "yacht-related terms (minimum:", MIN_YACHT_KEYWORDS, ")">>,
              keywordsFound |-> k.found]
        ELSE IF ~hasInventoryMarkers
        THEN [valid |-> FALSE,
              reason |-> <<"This doesn't appear to be a yacht listings page. Please navigate to the inventory or boats for sale page.">>,
              keywordsFound |-> k.found]
        ELSE [valid |-> TRUE, reason |-> nullString, keywordsFound |-> k.found]

----------------------------------------------------------------------------
\* Documents.
\*
\* A parsed document is known by what the selectors of the strategies find in
\* it: the listing cards of the page, each with the text of its heading, of
\* its price element, its usable image, the tokens the spec extractor finds
\* and its link; whether the cards are also published as JSON-LD products
\* and as microdata items; for each adapter whether detect finds its markers
\* and whether its card selector finds the cards; whether the selectors of
\* the generic parser find the cards.

CurrentYear == 2026

Y2023 == <<"2", "0", "2", "3">>
Y1975 == <<"1", "9", "7", "5">>

\* /\b(19[89]\d|20[0-2]\d)\b/ and /\b(19[5-9]\d|20[0-2]\d)\b/ on a
\* four-character token
IsYearToken(y, from) ==
    /\ Len(y) = 4
    /\ \A i \in 1..4 : IsDigit(y[i])
    /\ \/ y[1] = "1" /\ y[2] = "9" /\ DigitVal(y[3]) >= from
       \/ y[1] = "2" /\ y[2] = "0" /\ DigitVal(y[3]) <= 2

\* the year test as it would be if it ended at the current year
extractSpecs_UpToCurrentYear(card, yacht) ==
    LET yearOk == IsYearToken(card.year, 5)
                  /\ DigitsVal(card.year) >= 1950 /\ DigitsVal(card.year) <= CurrentYear
    IN  [yacht EXCEPT !.year = IF yearOk THEN card.year ELSE @,
                      !.length = IF card.length # "" THEN card.length ELSE @,
                      !.type = IF card.type # "" THEN card.type ELSE @,
                      !.location = IF card.location # "" THEN card.location ELSE @]

\* extractSpecs(element, yacht): the year is taken when it is in
\* 1950..current year + 1; length, type and location as found in the text
extractSpecs(card, yacht) ==
    LET yearOk == IsYearToken(card.year, 5)
                  /\ DigitsVal(card.year) >= 1950 /\ DigitsVal(card.year) <= CurrentYear + 1
    IN  [yacht EXCEPT !.year = IF yearOk THEN card.year ELSE @,
                      !.length = IF card.length # "" THEN card.length ELSE @,
                      !.type = IF card.type # "" THEN card.type ELSE @,
                      !.location = IF card.location # "" THEN card.location ELSE @]

\* CONFIG.MIN_IMAGE_WIDTH, CONFIG.MIN_IMAGE_HEIGHT
MIN_IMAGE_WIDTH == 200
MIN_IMAGE_HEIGHT == 150

\* excludePatterns of isValidImage
excludePatterns ==
    <<<<"l", "o", "g", "o">>,
      <<"i", "c", "o", "n">>,
      <<"p", "l", "a", "c", "e", "h", "o", "l", "d", "e", "r">>,
      <<"l", "o", "a", "d", "i", "n", "g">>,
      <<"s", "p", "i", "n", "n", "e", "r">>,
      <<"a", "v", "a", "t", "a", "r">>,
      <<"b", "a", "n", "n", "e", "r">>,
      <<"h", "e", "a", "d", "e", "r">>,
      <<"f", "o", "o", "t", "e", "r">>,
      <<"s", "o", "c", "i", "a", "l">>,
      <<"f", "a", "c", "e", "b", "o", "o", "k">>,
      <<"t", "w", "i", "t", "t", "e", "r">>,
      <<"l", "i", "n", "k", "e", "d", "i", "n">>,
      <<"i", "n", "s", "t", "a", "g", "r", "a", "m">>,
      <<"p", "i", "n", "t", "e", "r", "e", "s", "t">>,
      <<"y", "o", "u", "t", "u", "b", "e">>,
      <<"b", "u", "t", "t", "o", "n">>,
      <<"1", "x", "1">>,
      <<"p", "i", "x", "e", "l">>,
      <<"t", "r", "a", "c", "k", "i", "n", "g">>,
      <<"b", "e", "a", "c", "o", "n">>,
      <<"s", "p", "a", "c", "e", "r">>>>

\* s.includes(lit)
includes(s, lit) == \E i \in 1..Len(s) : LitAt(s, i, lit, FALSE)

\* url.startsWith(prefix)
startsWith(url, prefix) == Len(url) >= Len(prefix) /\ SubSeq(url, 1, Len(prefix)) = prefix

\* a || b for two dimensions that are 0 when unavailable
orElse(a, b) == IF a # 0 THEN a ELSE b

\* isValidImage(img) on the img element of a card (no element: card.img empty)
isValidImage(card) ==
    LET excluded(src) ==
            \E k \in 1..Len(excludePatterns) : includes(src, excludePatterns[k])
    IN  /\ card.img # <<>>
        /\ ~excluded(toLowerCase(card.img) \o <<>>)
        /\ orElse(card.imgWidth, 300) >= MIN_IMAGE_WIDTH
        /\ orElse(card.imgHeight, 200) >= MIN_IMAGE_HEIGHT

\* null in an images array
nullUrl == <<"null">>

Origin == <<"h", "t", "t", "p", "s", ":", "/", "/", "b", "r", "o", "k", "e", "r", ".", "e", "x", "a", "m", "p", "l", "e">>

\* resolveUrl(url, baseUrl) against the base https://broker.example
resolveUrl(url) ==
    IF url = <<>> THEN nullUrl
    ELSE IF startsWith(url, <<"d", "a", "t", "a", ":">>) THEN nullUrl
    ELSE IF startsWith(url, <<"h", "t", "t", "p">>) THEN url
    ELSE IF startsWith(url, <<"/", "/">>) THEN <<"h", "t", "t", "p", "s", ":">> \o url
    ELSE IF startsWith(url, <<"/">>) THEN Origin \o url
    ELSE Origin \o <<"/">> \o url

\* the first img of a card, if valid, resolved: [resolveUrl(imgEl.src, url)]
imgTag(card) == IF isValidImage(card) THEN <<resolveUrl(card.img)>> ELSE <<>>

\* the url(...) of a background-image style, resolved, else the img tag
bgOrImgTag(card) == IF card.bg # <<>> THEN <<resolveUrl(card.bg)>> ELSE imgTag(card)

\* images.filter(isValidImage).map(resolveUrl).filter(Boolean)
imgTags(card) == SelectSeq(imgTag(card), LAMBDA u : u # nullUrl)

\* the img tags, else the background images that resolve and are no placeholder
imgTagsOrBg(card) ==
    LET fallback(images, imgUrl) ==
            IF images # <<>> THEN images
            ELSE IF card.bg # <<>> /\ imgUrl # nullUrl
                    /\ ~includes(imgUrl, excludePatterns[3])
                 THEN <<imgUrl>> ELSE <<>>
    IN  fallback(imgTags(card), resolveUrl(card.bg))

\* data.image of a product, as the images array of a record: .filter(Boolean)
imagesOf(card) == IF card.img # <<>> THEN <<card.img>> ELSE <<>>

\* parseJsonLdProduct(data)
parseJsonLdProduct(card, now) ==
    LET product(priceRaw) ==
            [createEmptyYacht(now, 0) EXCEPT
                !.source = "json-ld",
                !.confidence.overall = 85,
                !.title = card.title,
                !.priceRaw = priceRaw,
                !.price = IF Truthy(priceRaw) THEN formatPrice(priceRaw, "USD") ELSE <<>>,
                !.images = imagesOf(card),
                !.year = IF IsYearToken(card.year, 8) THEN card.year ELSE <<>>]
        orNull(parsed) == IF card.ldPrice # <<>> /\ Truthy(parsed) THEN parsed ELSE null
    IN  product(orNull(parseFloat(card.ldPrice)))

\* parseMicrodataProduct(element)
parseMicrodataProduct(card, now) ==
    [createEmptyYacht(now, 0) EXCEPT
        !.source = "microdata",
        !.confidence.overall = 80,
        !.title = trim(card.title),
        !.price = trim(card.priceText),
        !.images = imagesOf(card)]

\* extractStructuredData(html): the JSON-LD products, then the microdata items
extractStructuredData(doc, now) ==
       (IF doc.sd \in {"json-ld", "both"}
        THEN [i \in 1..Len(doc.cards) |-> parseJsonLdProduct(doc.cards[i], now)] ELSE <<>>)
    \o (IF doc.sd \in {"microdata", "both"}
        THEN [i \in 1..Len(doc.cards) |-> parseMicrodataProduct(doc.cards[i], now)] ELSE <<>>)

SOLD == <<"s", "o", "l", "d">>
POA_WORDS == {<<"p", "o", "a">>,
              <<"p", "r", "i", "c", "e", " ", "o", "n", " ", "a", "p", "p", "l", "i", "c", "a", "t", "i", "o", "n">>,
              <<"c", "o", "n", "t", "a", "c", "t">>}

\* the price block of the wp-listing-theme and nyb-style adapters
adapterPrice(yacht, priceText, withPoa) ==
    LET priced(parsed) ==
            IF Truthy(parsed.raw)
            THEN [yacht EXCEPT !.price = parsed.formatted, !.priceRaw = parsed.raw]
            ELSE yacht
    IN  IF priceText = <<>> THEN yacht
        ELSE IF includesCI(priceText, SOLD)
        THEN [yacht EXCEPT !.price = Sold, !.priceRaw = N(0)]
        ELSE IF withPoa /\ \E w \in POA_WORDS : includesCI(priceText, w)
        THEN [yacht EXCEPT !.price = POA, !.priceRaw = N(0)]
        ELSE priced(extractPrice(priceText))

\* the title and image blocks the adapters share
adapterTitleImage(yacht, card, images) ==
    [yacht EXCEPT !.title = card.title,
                  !.detailUrl = IF card.title # <<>> THEN card.detailUrl ELSE @,
                  !.images = images]

\* the card callback of SITE_ADAPTERS[0].parse (wp-listing-theme)
wpCard(card, now, i) ==
    extractSpecs(card,
        adapterPrice(adapterTitleImage([createEmptyYacht(now, i) EXCEPT !.source = "wp-listing-theme"], card,
                                       imgTag(card)),
                     card.priceText, FALSE))

\* the card callback of SITE_ADAPTERS[1].parse (nyb-style)
nybCard(card, now, i) ==
    extractSpecs(card,
        adapterPrice(adapterTitleImage([createEmptyYacht(now, i) EXCEPT !.source = "nyb-style"], card,
                                       bgOrImgTag(card)),
                     card.priceText, TRUE))

\* the card callback of SITE_ADAPTERS[2].parse (yachtworld-style)
yachtworldCard(card, now, i) ==
    LET priced(yacht, parsed) ==
            IF card.priceText # <<>>
            THEN [yacht EXCEPT !.price = parsed.formatted, !.priceRaw = parsed.raw] ELSE yacht
    IN  extractSpecs(card,
            priced([createEmptyYacht(now, i) EXCEPT !.source = "yachtworld-style", !.title = card.title,
                                                    !.images = imgTag(card)],
                   extractPrice(card.priceText)))

\* the body of SITE_ADAPTERS[4].parse (detail-page) on the page's one listing
detailPage(card, now) ==
    LET priced(yacht, parsed) ==
            IF Truthy(parsed.raw) /\ AtLeast(parsed.raw, MIN_YACHT_PRICE)
            THEN [yacht EXCEPT !.price = parsed.formatted, !.priceRaw = parsed.raw]
            ELSE yacht
        listed(yacht) == IF yacht.title # <<>> \/ Truthy(yacht.priceRaw) THEN <<yacht>> ELSE <<>>
    IN  listed(extractSpecs(card,
            priced([createEmptyYacht(now, 0) EXCEPT !.source = "detail-page", !.title = card.title,
                                                    !.images = imgTags(card)],
                   extractPrice(card.priceText))))

\* /^[\$<euro sign><pound sign>]/ on a title
StartsWithCurrency(t) ==
    t # <<>> /\ (t[1] = "$" \/ (\E k \in 1..3 : t[1] = EURO_SIGN[k]) \/ (\E k \in 1..2 : t[1] = POUND_SIGN[k]))

noYacht == [createEmptyYacht(0, 0) EXCEPT !.source = "null"]

\* extractFromGenericCard as it would be if a price were enough
extractFromGenericCard_TitleOrPrice(card, now, index) ==
    LET priced(yacht, priceData) ==
            IF Truthy(priceData.raw) /\ AtLeast(priceData.raw, MIN_YACHT_PRICE)
               /\ AtMost(priceData.raw, MAX_YACHT_PRICE)
            THEN [yacht EXCEPT !.price = priceData.formatted, !.priceRaw = priceData.raw]
            ELSE yacht
        titled(yacht) ==
            IF Len(card.title) >= 5 /\ Len(card.title) <= 150 /\ ~StartsWithCurrency(card.title)
            THEN [yacht EXCEPT !.title = card.title, !.detailUrl = card.detailUrl]
            ELSE yacht
        pictured(yacht) == [yacht EXCEPT !.images = imgTagsOrBg(card)]
        returned(yacht) ==
            IF card.textLength < 20 \/ card.textLength > 5000 THEN noYacht
            ELSE IF yacht.title = <<>> /\ ~Truthy(yacht.priceRaw) THEN noYacht
            ELSE yacht
    IN  returned(extractSpecs(card,
            pictured(titled(priced(createEmptyYacht(now, index), extractPrice(card.priceText))))))

\* extractFromGenericCard(card, baseUrl, index); noYacht for null
extractFromGenericCard(card, now, index) ==
    LET priced(yacht, priceData) ==
            IF Truthy(priceData.raw) /\ AtLeast(priceData.raw, MIN_YACHT_PRICE)
               /\ AtMost(priceData.raw, MAX_YACHT_PRICE)
            THEN [yacht EXCEPT !.price = priceData.formatted, !.priceRaw = priceData.raw]
            ELSE yacht
        titled(yacht) ==
            IF Len(card.title) >= 5 /\ Len(card.title) <= 150 /\ ~StartsWithCurrency(card.title)
            THEN [yacht EXCEPT !.title = card.title, !.detailUrl = card.detailUrl]
            ELSE yacht
        pictured(yacht) == [yacht EXCEPT !.images = imgTagsOrBg(card)]
        returned(yacht) ==
            IF card.textLength < 20 \/ card.textLength > 5000 THEN noYacht
            ELSE IF yacht.title = <<>> THEN noYacht
            ELSE yacht
    IN  returned(extractSpecs(card,
            pictured(titled(priced(createEmptyYacht(now, index), extractPrice(card.priceText))))))

\* SITE_ADAPTERS, in registration order
SITE_ADAPTERS == <<"wp-listing-theme", "nyb-style", "yachtworld-style", "card-grid", "detail-page">>

\* SITE_ADAPTERS[a].detect(doc, url)
adapterDetect(a, doc) == doc.adapters[a] # "none"

\* the body of SITE_ADAPTERS[3].parse (card-grid) on the cards of the grid
cardGrid(cards, now) ==
    LET tagged(kept) == [k \in 1..Len(kept) |-> [kept[k] EXCEPT !.source = "card-grid"]]
    IN  IF Len(cards) >= 2 /\ Len(cards) <= 50
        THEN tagged(SelectSeq([i \in 1..Len(cards) |-> extractFromGenericCard(cards[i], now, i - 1)],
                              LAMBDA y : y # noYacht /\ (y.title # <<>> \/ Truthy(y.priceRaw))))
        ELSE <<>>

\* SITE_ADAPTERS[a].parse(doc, url) on the cards its selector finds
adapterParseCards(a, cards, now) ==
    CASE a = 1 -> SelectSeq([i \in 1..Len(cards) |-> wpCard(cards[i], now, i - 1)],
                            LAMBDA y : y.title # <<>>)
      [] a = 2 -> SelectSeq([i \in 1..Len(cards) |-> nybCard(cards[i], now, i - 1)],
                            LAMBDA y : y.title # <<>>)
      [] a = 3 -> SelectSeq([i \in 1..Len(cards) |-> yachtworldCard(cards[i], now, i - 1)],
                            LAMBDA y : y.title # <<>> \/ Truthy(y.priceRaw))
      [] a = 4 -> cardGrid(cards, now)
      [] OTHER -> IF Len(cards) = 0 THEN <<>> ELSE detailPage(cards[1], now)

\* SITE_ADAPTERS[a].parse(doc, url)
adapterParse(a, doc, now) ==
    adapterParseCards(a, IF doc.adapters[a] = "cards" THEN doc.cards ELSE <<>>, now)

\* genericHeuristicParse(doc, sourceUrl)
genericHeuristicParse(doc, now) ==
    LET parsed(candidates) ==
            SelectSeq([i \in 1..Len(candidates) |-> extractFromGenericCard(candidates[i], now, i - 1)],
                      LAMBDA y : y # noYacht)
    IN  parsed(IF doc.generic /\ Len(doc.cards) >= 2 THEN doc.cards ELSE <<>>)

----------------------------------------------------------------------------
\* Main parsing orchestrator

\* the calls a step of the adapter loop adds in front of those of the rest
detectOnly(a, rest) == [yachts |-> rest.yachts, trace |-> <<<<"detect", a>>>> \o rest.trace]
detectAndParse(a, rest) ==
    [yachts |-> rest.yachts, trace |-> <<<<"detect", a>>, <<"parse", a>>>> \o rest.trace]

\* the loop as it would be if a detecting adapter always ended it
RECURSIVE adapterLoop_StopAtFirstDetect(_, _, _)
adapterLoop_StopAtFirstDetect(a, doc, now) ==
    IF a > Len(SITE_ADAPTERS) THEN [yachts |-> <<>>, trace |-> <<>>]
    ELSE IF adapterDetect(a, doc)
    THEN detectAndParse(a, [yachts |-> adapterParse(a, doc, now), trace |-> <<>>])
    ELSE detectOnly(a, adapterLoop_StopAtFirstDetect(a + 1, doc, now))

\* Step 3 of parseYachtListings: the loop over SITE_ADAPTERS from adapter a
\* on.  trace lists the detect and parse calls made.
RECURSIVE adapterLoop(_, _, _)
adapterLoop(a, doc, now) ==
    LET parsed(yachts) ==
            IF Len(yachts) > 0
            THEN detectAndParse(a, [yachts |-> yachts, trace |-> <<>>])
            ELSE detectAndParse(a, adapterLoop(a + 1, doc, now))
    IN  IF a > Len(SITE_ADAPTERS) THEN [yachts |-> <<>>, trace |-> <<>>]
        ELSE IF adapterDetect(a, doc) THEN parsed(adapterParse(a, doc, now))
        ELSE detectOnly(a, adapterLoop(a + 1, doc, now))

\* a step of parseYachtListings that ran, after the steps before it
ranStep(before, step, yachts) ==
    [yachts |-> yachts, trace |-> before.trace \o <<<<step, 0>>>>]

\* Step 4: the generic parser, when the steps before it gave nothing
genericStep(before, doc, now) ==
    IF Len(before.yachts) = 0
    THEN ranStep(before, "genericHeuristicParse", genericHeuristicParse(doc, now))
    ELSE before

\* Steps 2-4 as they would be if the adapters ran whatever the structured data gave
candidatesOf_AlwaysAdapters(doc, now) ==
    LET adapterStep(structured, adapted) ==
            [yachts |-> structured.yachts \o adapted.yachts, trace |-> structured.trace \o adapted.trace]
    IN  adapterStep(ranStep([trace |-> <<>>], "extractStructuredData", extractStructuredData(doc, now)),
                    adapterLoop(1, doc, now))

\* Steps 2-4: the candidate records and the calls made to get them
candidatesOf(doc, now) ==
    LET adapterStep(structured, adapted) ==
            IF Len(structured.yachts) = 0
            THEN [yachts |-> adapted.yachts, trace |-> structured.trace \o adapted.trace]
            ELSE structured
    IN  genericStep(
            adapterStep(ranStep([trace |-> <<>>], "extractStructuredData", extractStructuredData(doc, now)),
                        adapterLoop(1, doc, now)),
            doc, now)

\* the first statements of the filter callback of Step 5: the record with
\* its score, its issues and its source address
filterScored(yacht, sourceUrl) ==
    LET validated(scored) == [scored EXCEPT !.issues = validateYacht(scored), !.sourceUrl = sourceUrl]
    IN  validated([yacht EXCEPT !.confidence.overall = calculateConfidence(yacht)])

\* the two tests as they would be without the confidence gate
filterVerdict_NoConfidenceGate(yacht) ==
    IF yacht.title = <<>> /\ ~Truthy(yacht.priceRaw) THEN "No title or price" ELSE "accepted"

\* the two tests as they would be without the title-or-price test
filterVerdict_NoTitleOrPriceTest(yacht) ==
    IF yacht.confidence.overall < MIN_LISTING_CONFIDENCE THEN "Low confidence" ELSE "accepted"

\* the two tests as they would be if a record with issues were not kept
filterVerdict_RejectOnIssues(yacht) ==
    IF yacht.confidence.overall < MIN_LISTING_CONFIDENCE \/ yacht.issues # <<>> THEN "Low confidence"
    ELSE IF yacht.title = <<>> /\ ~Truthy(yacht.priceRaw) THEN "No title or price"
    ELSE "accepted"

\* the two tests of the filter callback on a scored record
filterVerdict(yacht) ==
    IF yacht.confidence.overall < MIN_LISTING_CONFIDENCE THEN "Low confidence"
    ELSE IF yacht.title = <<>> /\ ~Truthy(yacht.priceRaw) THEN "No title or price"
    ELSE "accepted"

\* the string pushed on debug.rejectionReasons
rejectionReason(yacht, verdict) ==
    IF verdict = "Low confidence"
    THEN <<"Low confidence (", yacht.confidence.overall, "): ",
           IF yacht.title # <<>> THEN yacht.title ELSE <<"N", "o", " ", "t", "i", "t", "l", "e">>>>
    ELSE <<"No title or price">>

\* yachts.filter(...) of Step 5 applied to yachts[i..]: the kept records and
\* the debug counters
RECURSIVE filterFrom(_, _, _, _)
filterFrom(yachts, i, sourceUrl, debug) ==
    LET kept(yacht, rest) == [yachts |-> <<yacht>> \o rest.yachts, debug |-> rest.debug]
        tested(yacht, verdict) ==
            IF verdict # "accepted"
            THEN filterFrom(yachts, i + 1, sourceUrl,
                     [debug EXCEPT !.rejected = @ + 1,
                                   !.rejectionReasons = Append(@, rejectionReason(yacht, verdict))])
            ELSE kept(yacht, filterFrom(yachts, i + 1, sourceUrl, [debug EXCEPT !.accepted = @ + 1]))
        scored(yacht) == tested(yacht, filterVerdict(yacht))
    IN  IF i > Len(yachts) THEN [yachts |-> <<>>, debug |-> debug]
        ELSE scored(filterScored(yachts[i], sourceUrl))

emptyDebug == [attempted |-> 0, accepted |-> 0, rejected |-> 0, rejectionReasons |-> <<>>]

\* parseYachtListings after a successful Step 1, as it would be if the
\* duplicates dropped were counted as rejected
parseValidated_DuplicatesRejected(doc, sourceUrl, now, validation) ==
    LET returned(found, yachts, debug) ==
            [yachts |-> yachts, error |-> nullString,
             lastParseDebug |-> [url |-> sourceUrl, validation |-> validation, yachts |-> yachts,
                                 debug |-> debug],
             trace |-> found.trace, candidates |-> found.yachts]
        deduplicated(found, kept, unique) ==
            returned(found, unique,
                     [kept.debug EXCEPT !.rejected = @ + Len(kept.yachts) - Len(unique)])
        filtered(found, kept) == deduplicated(found, kept, deduplicateYachts(kept.yachts))
        filter(found) ==
            filtered(found, filterFrom(found.yachts, 1, sourceUrl,
                                       [emptyDebug EXCEPT !.attempted = Len(found.yachts)]))
    IN  filter(candidatesOf(doc, now))

\* parseYachtListings after a successful Step 1
parseValidated(doc, sourceUrl, now, validation) ==
    LET returned(found, yachts, debug) ==
            [yachts |-> yachts, error |-> nullString,
             lastParseDebug |-> [url |-> sourceUrl, validation |-> validation, yachts |-> yachts,
                                 debug |-> debug],
             trace |-> found.trace, candidates |-> found.yachts]
        filtered(found, kept) == returned(found, deduplicateYachts(kept.yachts), kept.debug)
        filter(found) ==
            filtered(found, filterFrom(found.yachts, 1, sourceUrl,
                                       [emptyDebug EXCEPT !.attempted = Len(found.yachts)]))
    IN  filter(candidatesOf(doc, now))

\* parseYachtListings after a failed Step 1
parseRejected(sourceUrl, validation) ==
    [yachts |-> <<>>, error |-> validation.reason,
     lastParseDebug |-> [url |-> sourceUrl, validation |-> validation, yachts |-> <<>>,
                         debug |-> emptyDebug],
     trace |-> <<>>, candidates |-> <<>>]

\* parseYachtListings as it would be if an empty result were reported as an error
parseYachtListings_ErrorWhenEmpty(doc, sourceUrl, now) ==
    LET checked(parsed) ==
            IF Len(parsed.yachts) = 0
            THEN [parsed EXCEPT !.error = <<"No yacht listings found.">>]
            ELSE parsed
        validated(validation) ==
            IF ~validation.valid THEN parseRejected(sourceUrl, validation)
            ELSE checked(parseValidated(doc, sourceUrl, now, validation))
    IN  validated(validateYachtSite(doc.html))

\* parseYachtListings(html, sourceUrl): the value returned (yachts, error),
\* the value stored in lastParseDebug, and - for the claims - the calls made
\* and the candidate list handed to Step 5
parseYachtListings(doc, sourceUrl, now) ==
    LET validated(validation) ==
            IF ~validation.valid THEN parseRejected(sourceUrl, validation)
            ELSE parseValidated(doc, sourceUrl, now, validation)
    IN  validated(validateYachtSite(doc.html))

----------------------------------------------------------------------------
\* Harness for deduplicateYachts: the input list is drawn in Init, the
\* function is applied once and then again to its own result.

MaxDedupLen == 3

SeqsUpTo(S, n) == UNION {[1..k -> S] : k \in 0..n}

DedupTitles == {<<"S", "e", "a">>, <<"s", "e", "a", " ">>, <<"S", "k", "y">>}

DedupYachts ==
    {[createEmptyYacht(0, 0) EXCEPT !.title = t, !.priceRaw = p, !.detailUrl = u] :
        t \in DedupTitles, p \in {null, N(0), N(5000)}, u \in {"", "u1", "u2"}}

DedupIdle == dIn = <<>> /\ dOut = <<>> /\ dOut2 = <<>> /\ dPc = "off"

DedupInit ==
    /\ dIn \in SeqsUpTo(DedupYachts, MaxDedupLen)
    /\ dOut = <<>>
    /\ dOut2 = <<>>
    /\ dPc = "input"

Dedup ==
    /\ dPc = "input"
    /\ dOut' = deduplicateYachts(dIn)
    /\ dPc' = "once"
    /\ UNCHANGED <<dIn, dOut2, notDedup>>

DedupAgain ==
    /\ dPc = "once"
    /\ dOut2' = deduplicateYachts(dOut)
    /\ dPc' = "twice"
    /\ UNCHANGED <<dIn, dOut, notDedup>>

----------------------------------------------------------------------------
\* Harness for calculateConfidence: a record is drawn in Init and scored;
\* each action turns one absent scored field into a present one and scores
\* the record again.

ConfSources == {"json-ld", "microdata", "red-ensign", "generic", "wp-listing-theme"}

ConfYachts ==
    {[createEmptyYacht(0, 0) EXCEPT !.title = t, !.images = im, !.priceRaw = p, !.year = y,
                                    !.length = l, !.type = ty, !.location = lo, !.source = s] :
        t \in {<<>>, <<"S", "e", "a">>}, im \in {<<>>, <<"http://x/a.jpg">>},
        p \in {null, N(0), N(5000)}, y \in {<<>>, Y2023}, l \in {"", "68"},
        ty \in {"", "motor"}, lo \in {"", "Miami, FL"}, s \in ConfSources}

ConfIdle ==
    /\ cYacht = createEmptyYacht(0, 0)
    /\ cPrev = 0
    /\ cOverall = 0
    /\ cPc = "off"

ConfInit ==
    /\ cYacht \in ConfYachts
    /\ cPrev = calculateConfidence(cYacht)
    /\ cOverall = calculateConfidence(cYacht)
    /\ cPc = "scored"

Rescore(yacht) ==
    /\ cPc # "off"
    /\ cYacht' = yacht
    /\ cPrev' = calculateConfidence(cYacht)
    /\ cOverall' = calculateConfidence(yacht)
    /\ cPc' = "rescored"
    /\ UNCHANGED notConf

AddTitle == cYacht.title = <<>> /\ Rescore([cYacht EXCEPT !.title = <<"S", "e", "a">>])
AddImage == Len(cYacht.images) = 0 /\ Rescore([cYacht EXCEPT !.images = <<"http://x/a.jpg">>])
AddPrice == ~Positive(cYacht.priceRaw)
            /\ Rescore([cYacht EXCEPT !.priceRaw = N(5000)])
AddYear == cYacht.year = <<>> /\ Rescore([cYacht EXCEPT !.year = Y2023])
AddLength == cYacht.length = "" /\ Rescore([cYacht EXCEPT !.length = "68"])
AddType == cYacht.type = "" /\ Rescore([cYacht EXCEPT !.type = "motor"])
AddLocation == cYacht.location = "" /\ Rescore([cYacht EXCEPT !.location = "Miami, FL"])

----------------------------------------------------------------------------
\* Harness for parseYachtListings: a document is drawn in Init and parsed.

MaxCards == 2

SeaRay == <<"S", "e", "a", " ", "R", "a", "y">>
FiveThousand == <<"$", "5", ",", "0", "0", "0">>
Image == <<"h", "t", "t", "p", ":", "/", "/", "x", "/", "a", ".", "j", "p", "g">>
LogoImage == <<"h", "t", "t", "p", ":", "/", "/", "x", "/", "l", "o", "g", "o", ".", "p", "n", "g">>
DataImage == <<"d", "a", "t", "a", ":", ",", "A">>

\* a card without anything
emptyCard ==
    [title |-> <<>>, priceText |-> <<>>, ldPrice |-> <<>>, img |-> <<>>, imgWidth |-> 0,
     imgHeight |-> 0, bg |-> <<>>, year |-> <<>>,
     length |-> "", type |-> "", location |-> "", detailUrl |-> "", textLength |-> 200]

Cards ==
    { \* a complete listing
      [emptyCard EXCEPT !.title = SeaRay, !.priceText = FiveThousand, !.ldPrice = <<"5", "0", "0", "0">>,
                        !.img = Image, !.year = Y2023, !.length = "40", !.type = "motor",
                        !.location = "Miami, FL", !.detailUrl = "https://broker.example/boats/1"],
      \* a sold boat under a three-letter heading and little text
      [emptyCard EXCEPT !.title = <<"S", "e", "a">>, !.priceText = Sold, !.textLength = 10],
      \* a price, a picture and a year, no heading
      [emptyCard EXCEPT !.priceText = FiveThousand, !.ldPrice = <<"5", "0", "0", "0">>,
                        !.img = Image, !.year = Y2023],
      \* a picture and a year only
      [emptyCard EXCEPT !.img = Image, !.year = Y2023],
      \* a thumbnail of 100 by 100 only
      [emptyCard EXCEPT !.img = Image, !.imgWidth = 100, !.imgHeight = 100],
      \* the first listing again, price on application, from 1975
      [emptyCard EXCEPT !.title = SeaRay, !.priceText = POA, !.ldPrice = <<"0">>,
                        !.year = Y1975, !.img = Image,
                        !.detailUrl = "https://broker.example/boats/1"],
      \* a listing whose picture is embedded in the page, over the broker's
      \* logo as background
      [emptyCard EXCEPT !.title = SeaRay, !.priceText = FiveThousand, !.ldPrice = <<"5", "0", "0", "0">>,
                        !.img = DataImage, !.bg = LogoImage] }

HtmlNoKeywords == {}
HtmlFewKeywords == {"boat", "boats", "/boats/"}
HtmlNoMarkers == {"yacht", "marine", "hull"}
HtmlListings == {"yacht", "yachts", "boat", "for sale"}

AdapterFindings == {"none", "detected", "cards"}

\* a listings page with any findings, and pages failing validation whatever
\* their cards
Docs ==
         [html : {HtmlListings}, cards : SeqsUpTo(Cards, MaxCards),
          sd : {"none", "json-ld", "microdata", "both"},
          adapters : [1..Len(SITE_ADAPTERS) -> AdapterFindings], generic : BOOLEAN]
    \cup [html : {HtmlNoKeywords, HtmlFewKeywords, HtmlNoMarkers}, cards : SeqsUpTo(Cards, MaxCards),
          sd : {"none", "json-ld", "microdata", "both"},
          adapters : {[a \in 1..Len(SITE_ADAPTERS) |-> "cards"]}, generic : {TRUE}]

SourceUrl == "https://broker.example/boats"

noResult == [yachts |-> <<>>, error |-> nullString, trace |-> <<>>, candidates |-> <<>>]

ParseIdle ==
    /\ pDoc = [html |-> {}, cards |-> <<>>, sd |-> "none",
               adapters |-> [a \in 1..Len(SITE_ADAPTERS) |-> "none"], generic |-> FALSE]
    /\ pResult = noResult
    /\ pPc = "off"

ParseInit ==
    /\ pDoc \in Docs
    /\ pResult = noResult
    /\ pPc = "input"

ParseYachtListings ==
    /\ pPc = "input"
    /\ LET returned(r) ==
               /\ pResult' = [yachts |-> r.yachts, error |-> r.error, trace |-> r.trace,
                              candidates |-> r.candidates]
               /\ lastParseDebug' = r.lastParseDebug
       IN  returned(parseYachtListings(pDoc, SourceUrl, 1))
    /\ pPc' = "parsed"
    /\ UNCHANGED <<pDoc, notParse>>

----------------------------------------------------------------------------
\* The page: state, fetch session and event handlers

MAX_LISTINGS_DISPLAY == 10

MaxRuns == 2
MaxClock == 2
MaxClicks == 2

\* currentEditIndex and lastParseDebug hold null, or <<index>> and a report
nullIndex == <<>>
nullDebug == <<>>

\* Addresses
HomeUrl == "https://broker.example"
BoatsUrl == "https://broker.example/boats"
Page2Url == "https://broker.example/boats/page/2"

\* what the user may have typed into #broker-url
UrlInputs == {"", " ", "broker", " https://broker.example "}

\* url.trim() of an input, and the inputs new URL(url) accepts
trimUrl(input) ==
    CASE input = " " -> ""
      [] input = " https://broker.example " -> HomeUrl
      [] OTHER -> input

IsUrl(url) == url \in {HomeUrl, BoatsUrl, Page2Url}

\* baseUrl + '/'
withSlash(url) ==
    CASE url = HomeUrl -> "https://broker.example/"
      [] url = BoatsUrl -> "https://broker.example/boats/"
      [] OTHER -> "https://broker.example/boats/page/2/"

\* A fetched page: the document, its same-host links with their inventory
\* score, the links accepted from its pagination containers and the links
\* matching the fallback pagination patterns.
HomePage ==
    [doc |-> [html |-> HtmlListings,
              cards |-> <<[emptyCard EXCEPT !.title = SeaRay, !.priceText = FiveThousand,
                                            !.img = Image, !.year = Y2023, !.length = "40",
                                            !.detailUrl = "https://broker.example/boats/1"],
                          [emptyCard EXCEPT !.title = <<"S", "e", "a">>, !.priceText = Sold]>>,
              sd |-> "none",
              adapters |-> [a \in 1..Len(SITE_ADAPTERS) |-> IF a = 1 THEN "cards" ELSE "none"],
              generic |-> FALSE],
     links |-> <<[href |-> "https://broker.example/", score |-> 3],
                 [href |-> BoatsUrl, score |-> 15]>>,
     pagination |-> <<>>,
     pageLinks |-> <<>>]

BoatsPage ==
    [doc |-> [html |-> HtmlListings,
              cards |-> <<[emptyCard EXCEPT !.title = <<" ", "S", "k", "y", " ", "4", "0">>,
                                            !.ldPrice = <<"9", "0", "0", "0">>,
                                            !.img = Image, !.year = Y2023],
                          [emptyCard EXCEPT !.ldPrice = <<"5", "0", "0", "0">>, !.img = Image]>>,
              sd |-> "json-ld",
              adapters |-> [a \in 1..Len(SITE_ADAPTERS) |-> "none"],
              generic |-> FALSE],
     links |-> <<[href |-> HomeUrl, score |-> 3]>>,
     pagination |-> <<BoatsUrl, Page2Url>>,
     pageLinks |-> <<>>]

BlockedPage ==
    [doc |-> [html |-> HtmlNoKeywords, cards |-> <<>>, sd |-> "none",
              adapters |-> [a \in 1..Len(SITE_ADAPTERS) |-> "none"], generic |-> FALSE],
     links |-> <<>>, pagination |-> <<>>, pageLinks |-> <<>>]

Pages == {HomePage, BoatsPage, BlockedPage}

\* the distinct elements of a sequence, in order of first occurrence
RECURSIVE distinct(_)
distinct(s) ==
    IF s = <<>> THEN <<>>
    ELSE LET front == distinct(SubSeq(s, 1, Len(s) - 1))
         IN  IF \E i \in 1..Len(front) : front[i] = s[Len(s)] THEN front ELSE Append(front, s[Len(s)])

\* Array.prototype.sort((a, b) => b[1] - a[1]) on [href, score] entries
RECURSIVE sortByScore(_)
sortByScore(entries) ==
    IF entries = <<>> THEN <<>>
    ELSE LET best == CHOOSE i \in 1..Len(entries) :
                         /\ \A j \in 1..Len(entries) : entries[j].score <= entries[i].score
                         /\ \A j \in 1..(i - 1) : entries[j].score < entries[i].score
         IN  <<entries[best]>> \o
             sortByScore(SubSeq(entries, 1, best - 1) \o SubSeq(entries, best + 1, Len(entries)))

\* Array.prototype.slice(0, n) without its end
slice_Whole(s, n) == s

slice(s, n) == SubSeq(s, 1, IF Len(s) < n THEN Len(s) ELSE n)

\* discoverInventoryLinks(html, baseUrl)
discoverInventoryLinks(page, baseUrl) ==
    LET scored == SelectSeq(page.links,
                      LAMBDA l : l.href # baseUrl /\ l.href # withSlash(baseUrl) /\ l.score > 0)
        hrefs == distinct([i \in 1..Len(scored) |-> scored[i].href])
        found == [i \in 1..Len(hrefs) |->
                     [href |-> hrefs[i],
                      score |-> CHOOSE m \in {scored[k].score : k \in 1..Len(scored)} :
                                    /\ \E k \in 1..Len(scored) : scored[k].href = hrefs[i] /\ scored[k].score = m
                                    /\ \A k \in 1..Len(scored) : scored[k].href = hrefs[i] => scored[k].score <= m]]
        sorted == sortByScore(found)
    IN  slice([i \in 1..Len(sorted) |-> sorted[i].href], 10)

\* discoverPaginationLinks(html, baseUrl)
discoverPaginationLinks(page, baseUrl) ==
    LET paginationUrls == distinct(page.pagination)
    IN  IF Len(paginationUrls) = 0
        THEN distinct(SelectSeq(page.pageLinks, LAMBDA href : href # baseUrl))
        ELSE paginationUrls

\* The local variables of a handleFetch run.  pc names the await the run is
\* suspended at: the fetch of the entered address ("main"), of the inventory
\* page i ("inventory"), of page j of that inventory's pagination
\* ("inventoryPage"), of page k of the entered address's pagination
\* ("pagination").  failed lists the addresses of the 'Failed to fetch' log
\* lines of the run.
idleRun ==
    [pc |-> "idle", url |-> "", allYachts |-> <<>>, pagesScanned |-> <<>>,
     inventoryLinks |-> <<>>, paginationLinks |-> <<>>, invPagination |-> <<>>,
     i |-> 0, j |-> 0, k |-> 0, failed |-> <<>>]

Runs == 1..MaxRuns

includesUrl(pagesScanned, url) == \E n \in 1..Len(pagesScanned) : pagesScanned[n] = url

Least(S) == CHOOSE n \in S : \A m \in S : n <= m

min(a, b) == IF a < b THEN a ELSE b

\* the loop over the pagination links of the entered address, from index k
\* on: the next page to await, or the end of the loops.  result.yachts is the
\* array allYachts names, so its length is that of the pooled list.
nextPagination(run, from) ==
    LET todo == {k \in from..(min(3, Len(run.paginationLinks)) - 1) :
                    ~includesUrl(run.pagesScanned, run.paginationLinks[k + 1])}
    IN  IF Len(run.allYachts) > 0 /\ todo # {}
        THEN [run EXCEPT !.pc = "pagination", !.k = Least(todo)]
        ELSE [run EXCEPT !.pc = "finish"]

\* the loop over inventoryToScan, from index i on
nextInventory(run, from) ==
    LET inventoryToScan == slice(run.inventoryLinks, 5)
        todo == {i \in from..(Len(inventoryToScan) - 1) :
                    ~includesUrl(run.pagesScanned, inventoryToScan[i + 1])}
    IN  IF todo # {}
        THEN [run EXCEPT !.pc = "inventory", !.i = Least(todo), !.invPagination = <<>>, !.j = 0]
        ELSE nextPagination([run EXCEPT !.invPagination = <<>>, !.j = 0], 0)

\* the loop over the pagination links of inventory page i, from index j on
nextInventoryPage(run, from) ==
    LET todo == {j \in from..(min(3, Len(run.invPagination)) - 1) :
                    ~includesUrl(run.pagesScanned, run.invPagination[j + 1])}
    IN  IF todo # {}
        THEN [run EXCEPT !.pc = "inventoryPage", !.j = Least(todo)]
        ELSE nextInventory(run, run.i + 1)

\* allYachts.push(...yachts); pagesScanned.push(url), when the page has records
pooled(run, yachts, url) ==
    IF Len(yachts) > 0
    THEN [run EXCEPT !.allYachts = @ \o yachts, !.pagesScanned = Append(@, url)]
    ELSE run

\* log(`Failed to fetch ${url}:`, e.message) in a catch of the loops
logged(run, url) == [run EXCEPT !.failed = Append(@, url)]

idsOf(yachts) == {yachts[n].id : n \in 1..Len(yachts)}

\* handleFetch from the end of the loops to the end of the finally block
finish(r, run) ==
    LET shown(allYachts, displayed) ==
            IF Len(allYachts) = 0
            THEN UNCHANGED stateVars
            ELSE /\ totalYachtsFound' = Len(allYachts)
                 /\ parsedYachts' = displayed
                 /\ selectedYachts' = idsOf(displayed)
                 /\ UNCHANGED currentEditIndex
        deduplicated(allYachts) == shown(allYachts, slice(allYachts, MAX_LISTINGS_DISPLAY))
    IN  /\ deduplicated(deduplicateYachts(run.allYachts))
        /\ disabled' = FALSE
        /\ runs' = [runs EXCEPT ![r] = idleRun]

\* a run goes on to its next await, or to its end
resume(r, run) ==
    IF run.pc = "finish" THEN finish(r, run)
    ELSE /\ runs' = [runs EXCEPT ![r] = run]
         /\ UNCHANGED <<stateVars, disabled>>

\* handleFetch() up to its first await
handleFetch(input) ==
    LET url == trimUrl(input)
    IN  /\ started < MaxRuns
        /\ IF url = "" \/ ~IsUrl(url)
           THEN UNCHANGED <<runs, disabled, started>>
           ELSE /\ \E r \in Runs :
                       /\ runs[r].pc = "idle"
                       /\ \A q \in Runs : q < r => runs[q].pc # "idle"
                       /\ runs' = [runs EXCEPT ![r] = [idleRun EXCEPT !.pc = "main", !.url = url]]
                /\ disabled' = TRUE
                /\ started' = started + 1
        /\ UNCHANGED <<stateVars, lastParseDebug, clock, clicks, notPage>>

\* a click on #fetch-btn, which a disabled button does not deliver
ClickFetch == \E input \in UrlInputs : ~disabled /\ handleFetch(input)

\* the Enter key in #broker-url
PressEnter == \E input \in UrlInputs : handleFetch(input)

\* the addresses a run can come to fetch
Urls == {HomeUrl, BoatsUrl, Page2Url, "https://broker.example/"}

\* parseYachtListings(html, url) for every page, address and time, tabulated
parseTable ==
    [page \in Pages, url \in Urls, now \in 1..MaxClock |-> parseYachtListings(page.doc, url, now)]

\* the parse of a fetched page at time now
parsedAt(page, url, now) == parseTable[page, url, now]

\* await fetchWithProxy(url) returns the text of the entered address
MainFetched ==
    \E r \in Runs, page \in Pages, now \in clock..MaxClock :
        LET parsed(run, result) ==
                /\ lastParseDebug' = result.lastParseDebug
                /\ resume(r, nextInventory([run EXCEPT !.allYachts = result.yachts,
                                                       !.pagesScanned = <<run.url>>,
                                                       !.inventoryLinks = discoverInventoryLinks(page, run.url),
                                                       !.paginationLinks = discoverPaginationLinks(page, run.url)], 0))
        IN  /\ runs[r].pc = "main"
            /\ clock' = now
            /\ parsed(runs[r], parsedAt(page, runs[r].url, now))
            /\ UNCHANGED <<started, clicks, notPage>>

\* await fetchWithProxy(url) throws: the outer catch and the finally block
MainFailed ==
    \E r \in Runs :
        /\ runs[r].pc = "main"
        /\ disabled' = FALSE
        /\ runs' = [runs EXCEPT ![r] = idleRun]
        /\ UNCHANGED <<stateVars, lastParseDebug, clock, started, clicks, notPage>>

\* await fetchWithProxy(invUrl) returns, as it would be if the report of the
\* entered page were kept
InventoryFetched_KeepsReport ==
    \E r \in Runs, page \in Pages, now \in clock..MaxClock :
        LET parsed(run, invUrl, invResult) ==
                /\ UNCHANGED lastParseDebug
                /\ resume(r, IF Len(invResult.yachts) > 0
                             THEN nextInventoryPage(
                                      [pooled(run, invResult.yachts, invUrl)
                                           EXCEPT !.invPagination = discoverPaginationLinks(page, invUrl)], 0)
                             ELSE nextInventory(run, run.i + 1))
            fetched(run, invUrl) == parsed(run, invUrl, parsedAt(page, invUrl, now))
        IN  /\ runs[r].pc = "inventory"
            /\ clock' = now
            /\ fetched(runs[r], slice(runs[r].inventoryLinks, 5)[runs[r].i + 1])
            /\ UNCHANGED <<started, clicks, notPage>>

\* await fetchWithProxy(invUrl) returns
InventoryFetched ==
    \E r \in Runs, page \in Pages, now \in clock..MaxClock :
        LET parsed(run, invUrl, invResult) ==
                /\ lastParseDebug' = invResult.lastParseDebug
                /\ resume(r, IF Len(invResult.yachts) > 0
                             THEN nextInventoryPage(
                                      [pooled(run, invResult.yachts, invUrl)
                                           EXCEPT !.invPagination = discoverPaginationLinks(page, invUrl)], 0)
                             ELSE nextInventory(run, run.i + 1))
            fetched(run, invUrl) == parsed(run, invUrl, parsedAt(page, invUrl, now))
        IN  /\ runs[r].pc = "inventory"
            /\ clock' = now
            /\ fetched(runs[r], slice(runs[r].inventoryLinks, 5)[runs[r].i + 1])
            /\ UNCHANGED <<started, clicks, notPage>>

\* await fetchWithProxy(invUrl) throws: the catch of the inventory loop
InventoryFailed ==
    \E r \in Runs :
        /\ runs[r].pc = "inventory"
        /\ resume(r, nextInventory(logged(runs[r], slice(runs[r].inventoryLinks, 5)[runs[r].i + 1]), runs[r].i + 1))
        /\ UNCHANGED <<lastParseDebug, clock, started, clicks, notPage>>

\* await fetchWithProxy(pageUrl) returns, inside the inventory loop
InventoryPageFetched ==
    \E r \in Runs, page \in Pages, now \in clock..MaxClock :
        LET parsed(run, pageUrl, pageResult) ==
                /\ lastParseDebug' = pageResult.lastParseDebug
                /\ resume(r, nextInventoryPage(pooled(run, pageResult.yachts, pageUrl), run.j + 1))
            fetched(run, pageUrl) == parsed(run, pageUrl, parsedAt(page, pageUrl, now))
        IN  /\ runs[r].pc = "inventoryPage"
            /\ clock' = now
            /\ fetched(runs[r], runs[r].invPagination[runs[r].j + 1])
            /\ UNCHANGED <<started, clicks, notPage>>

\* await fetchWithProxy(pageUrl) throws, inside the inventory loop
InventoryPageFailed ==
    \E r \in Runs :
        /\ runs[r].pc = "inventoryPage"
        /\ resume(r, nextInventoryPage(logged(runs[r], runs[r].invPagination[runs[r].j + 1]), runs[r].j + 1))
        /\ UNCHANGED <<lastParseDebug, clock, started, clicks, notPage>>

\* await fetchWithProxy(pageUrl) returns, in the pagination of the entered address
PaginationFetched ==
    \E r \in Runs, page \in Pages, now \in clock..MaxClock :
        LET parsed(run, pageUrl, pageResult) ==
                /\ lastParseDebug' = pageResult.lastParseDebug
                /\ resume(r, nextPagination(pooled(run, pageResult.yachts, pageUrl), run.k + 1))
            fetched(run, pageUrl) == parsed(run, pageUrl, parsedAt(page, pageUrl, now))
        IN  /\ runs[r].pc = "pagination"
            /\ clock' = now
            /\ fetched(runs[r], runs[r].paginationLinks[runs[r].k + 1])
            /\ UNCHANGED <<started, clicks, notPage>>

\* the catch as it would be if the failure went to the outer catch of handleFetch
PaginationFailed_Aborts ==
    \E r \in Runs :
        /\ runs[r].pc = "pagination"
        /\ disabled' = FALSE
        /\ runs' = [runs EXCEPT ![r] = idleRun]
        /\ UNCHANGED <<stateVars, lastParseDebug, clock, started, clicks, notPage>>

\* await fetchWithProxy(pageUrl) throws, in the pagination of the entered address
PaginationFailed ==
    \E r \in Runs :
        /\ runs[r].pc = "pagination"
        /\ resume(r, nextPagination(logged(runs[r], runs[r].paginationLinks[runs[r].k + 1]), runs[r].k + 1))
        /\ UNCHANGED <<lastParseDebug, clock, started, clicks, notPage>>

\* the handlers below leave the fetch session alone
notSession == <<lastParseDebug, disabled, clock, runs, started, notPage>>

\* one more click on the results
click == clicks < MaxClicks /\ clicks' = clicks + 1

\* toggleYachtSelection(id), from the checkbox of a rendered card
toggleYachtSelection ==
    \E n \in 1..Len(parsedYachts) :
        LET id == parsedYachts[n].id
        IN  /\ selectedYachts' = IF id \in selectedYachts THEN selectedYachts \ {id}
                                 ELSE selectedYachts \cup {id}
            /\ click
            /\ UNCHANGED <<parsedYachts, totalYachtsFound, currentEditIndex, notSession>>

\* toggleSelectAll()
toggleSelectAll ==
    /\ selectedYachts' = IF Cardinality(selectedYachts) = Len(parsedYachts) THEN {}
                         ELSE selectedYachts \cup idsOf(parsedYachts)
    /\ click
    /\ UNCHANGED <<parsedYachts, totalYachtsFound, currentEditIndex, notSession>>

\* Array.prototype.splice(index, 1)
splice(s, index) == SubSeq(s, 1, index) \o SubSeq(s, index + 2, Len(s))

\* removeYacht(index) as it would be if the selection were left alone
removeYacht_KeepsSelection ==
    \E index \in 0..(Len(parsedYachts) - 1) :
        /\ parsedYachts' = splice(parsedYachts, index)
        /\ click
        /\ UNCHANGED <<selectedYachts, totalYachtsFound, currentEditIndex, notSession>>

\* removeYacht(index), from the button of a rendered card
removeYacht ==
    \E index \in 0..(Len(parsedYachts) - 1) :
        /\ selectedYachts' = selectedYachts \ {parsedYachts[index + 1].id}
        /\ parsedYachts' = splice(parsedYachts, index)
        /\ click
        /\ UNCHANGED <<totalYachtsFound, currentEditIndex, notSession>>

\* editYacht(index), from the button of a rendered card
editYacht ==
    \E index \in 0..(Len(parsedYachts) - 1) :
        /\ currentEditIndex' = <<index>>
        /\ click
        /\ UNCHANGED <<parsedYachts, totalYachtsFound, selectedYachts, notSession>>

\* what the user may have put into the fields of the modal in place of the
\* values editYacht wrote there
EditTitles == {<<>>}
EditPrices == {<<>>, <<" ", "$", "9", ",", "0", "0", "0">>}
EditLengths == {"68"}
TypeOptions == {"", "motor", "sail", "catamaran", "superyacht"}

\* the statements of saveYachtEdit on the record, with the values of the fields
edited(yacht, title, price, year, length, type, location) ==
    LET scored(y) == [y EXCEPT !.confidence.overall = calculateConfidence(y)]
        validated(y) == scored([y EXCEPT !.issues = validateYacht(y)])
        priced(y, parsed) ==
            IF y.price # <<>> /\ ~Truthy(y.priceRaw)
            THEN [y EXCEPT !.priceRaw = parsed.raw,
                           !.price = IF parsed.formatted # <<>> THEN parsed.formatted ELSE @]
            ELSE y
        written(y) == validated(priced(y, extractPrice(y.price)))
    IN  written([yacht EXCEPT !.title = trim(title), !.price = trim(price), !.year = trim(year),
                              !.length = length, !.type = type, !.location = location])

\* saveYachtEdit().  When parsedYachts has no record at currentEditIndex any
\* more the first assignment throws and nothing is written.
saveYachtEdit ==
    /\ currentEditIndex # nullIndex
    /\ LET save(yacht) ==
               \E title \in {yacht.title} \cup EditTitles, price \in {yacht.price} \cup EditPrices,
                  length \in {yacht.length} \cup EditLengths :
                   parsedYachts' = [parsedYachts EXCEPT ![currentEditIndex[1] + 1] =
                                       edited(yacht, title, price, yacht.year, length,
                                              IF yacht.type \in TypeOptions THEN yacht.type ELSE "",
                                              yacht.location)]
       IN  IF currentEditIndex[1] < Len(parsedYachts)
           THEN save(parsedYachts[currentEditIndex[1] + 1]) /\ currentEditIndex' = nullIndex
           ELSE UNCHANGED <<parsedYachts, currentEditIndex>>
    /\ click
    /\ UNCHANGED <<totalYachtsFound, selectedYachts, notSession>>

\* closeModal(): the close and cancel buttons, a click on the backdrop, Escape
closeModal ==
    /\ currentEditIndex' = nullIndex
    /\ click
    /\ UNCHANGED <<parsedYachts, totalYachtsFound, selectedYachts, notSession>>

\* importSelectedYachts(): alerts and a console line, no state is written
importSelectedYachts ==
    /\ click
    /\ UNCHANGED <<stateVars, notSession>>

\* the state of the page when the script has loaded
PageInit ==
    /\ parsedYachts = <<>>
    /\ totalYachtsFound = 0
    /\ selectedYachts = {}
    /\ currentEditIndex = nullIndex
    /\ lastParseDebug = nullDebug
    /\ disabled = FALSE
    /\ clock = 1
    /\ runs = [r \in Runs |-> idleRun]
    /\ started = 0
    /\ clicks = 0

----------------------------------------------------------------------------
\* Harnesses for the pure functions validateYacht, extractPrice and
\* extractSpecs: an argument is drawn in Init and the function is applied.

FnIdle == fArg = <<>> /\ fRet = <<>> /\ fPc = "off"

\* a call of a function on the argument drawn
Call(name, ret) ==
    /\ fPc = name
    /\ fRet' = ret
    /\ fPc' = "returned"
    /\ UNCHANGED <<fArg, notFn>>

Returned(name) == fPc = "returned" /\ fArg.fn = name

\* ---- validateYacht

ValidatePrices == {<<>>, Sold, POA, SeeDetails, <<"$", "5", ",", "0", "0", "0">>}

ValidateYachts ==
    {[createEmptyYacht(0, 0) EXCEPT !.title = t, !.price = pr, !.priceRaw = p, !.images = im,
                                    !.year = y, !.length = l, !.type = ty, !.location = lo] :
        t \in {<<>>, <<"S", "e", "a">>}, pr \in ValidatePrices, p \in {null, N(0), N(5000)},
        im \in {<<>>, <<"http://x/a.jpg">>}, y \in {<<>>, Y2023}, l \in {"", "68"},
        ty \in {"", "motor"}, lo \in {"", "Miami, FL"}}

ValidateInit ==
    /\ fArg \in {[fn |-> "validateYacht", yacht |-> y] : y \in ValidateYachts}
    /\ fRet = <<>>
    /\ fPc = "validateYacht"

ValidateYacht == Call("validateYacht", validateYacht(fArg.yacht))

-----------------------------------------------------------------------------

\* ---- extractPrice

\* the euro sign, which the source file spells EURO_SIGN
RealEuroSign == <<"U+20AC">>

PriceAmounts ==
    {<<"9", "9", "9">>,
     <<"1", "0", "0", "0">>,
     <<"1", ",", "0", "0", "0">>,
     <<"9", "9", "9", ".", "5", "0">>,
     <<"1", ",", "2", "3", "4", ",", "5", "6", "7">>,
     <<"1", ".", "2", "3", "4", ".", "5", "6", "7", ",", "0", "0">>,
     <<"9", "9", "9", ",", "0", "0">>,
     <<"5", "0", "0">>}

\* what stands before an amount, and after it
PriceSigns == {<<"$">>, RealEuroSign, EURO_SIGN, <<"E", "U", "R", " ">>, <<"P", "r", "i", "c", "e", ":", " ">>, <<>>}
PriceWords == {<<" ", "E", "U", "R">>, <<" ", "U", "S", "D">>}

\* a deposit before the price
DepositAndPrice == <<"$", "5", "0", "0", " ", "d", "e", "p", "o", "s", "i", "t", ",", " ", "$", "1", ",", "2", "3", "4", ",", "5", "6", "7">>

PriceTexts ==
    {sign \o amount : sign \in PriceSigns, amount \in PriceAmounts}
        \cup {amount \o word : amount \in PriceAmounts, word \in PriceWords}
        \cup {DepositAndPrice}

PriceInit ==
    /\ fArg \in {[fn |-> "extractPrice", text |-> text] : text \in PriceTexts}
    /\ fRet = <<>>
    /\ fPc = "extractPrice"

ExtractPrice == Call("extractPrice", extractPrice(fArg.text))

-----------------------------------------------------------------------------

\* ---- extractSpecs

\* the one four-digit number of the text
SpecsYears ==
    {<<>>, <<"1", "8", "9", "9">>, <<"1", "9", "4", "9">>, <<"1", "9", "5", "0">>, <<"1", "9", "5", "1">>,
     toDigits(CurrentYear), toDigits(CurrentYear + 1), toDigits(CurrentYear + 2),
     <<"2", "0", "2", "9">>, <<"2", "0", "3", "0">>}

SpecsCards ==
    {[emptyCard EXCEPT !.year = y, !.length = l, !.type = ty, !.location = lo] :
        y \in SpecsYears, l \in {"", "40"}, ty \in {"", "motor"}, lo \in {"", "Miami, FL"}}

SpecsInit ==
    /\ fArg \in {[fn |-> "extractSpecs", card |-> card] : card \in SpecsCards}
    /\ fRet = <<>>
    /\ fPc = "extractSpecs"

ExtractSpecs == Call("extractSpecs", extractSpecs(fArg.card, createEmptyYacht(0, 0)))

-----------------------------------------------------------------------------

\* validateYachtSite on the text of a page.

\* the characters of the keywords and markers
spelled ==
    ("yacht" :> <<"y", "a", "c", "h", "t">>)
    @@ ("yachts" :> <<"y", "a", "c", "h", "t", "s">>)
    @@ ("boat" :> <<"b", "o", "a", "t">>)
    @@ ("boats" :> <<"b", "o", "a", "t", "s">>)
    @@ ("vessel" :> <<"v", "e", "s", "s", "e", "l">>)
    @@ ("vessels" :> <<"v", "e", "s", "s", "e", "l", "s">>)
    @@ ("marine" :> <<"m", "a", "r", "i", "n", "e">>)
    @@ ("sailing" :> <<"s", "a", "i", "l", "i", "n", "g">>)
    @@ ("sailboat" :> <<"s", "a", "i", "l", "b", "o", "a", "t">>)
    @@ ("motor yacht" :> <<"m", "o", "t", "o", "r", " ", "y", "a", "c", "h", "t">>)
    @@ ("catamaran" :> <<"c", "a", "t", "a", "m", "a", "r", "a", "n">>)
    @@ ("trimaran" :> <<"t", "r", "i", "m", "a", "r", "a", "n">>)
    @@ ("brokerage" :> <<"b", "r", "o", "k", "e", "r", "a", "g", "e">>)
    @@ ("broker" :> <<"b", "r", "o", "k", "e", "r">>)
    @@ ("for sale" :> <<"f", "o", "r", " ", "s", "a", "l", "e">>)
    @@ ("buy" :> <<"b", "u", "y">>)
    @@ ("sell" :> <<"s", "e", "l", "l">>)
    @@ ("length overall" :> <<"l", "e", "n", "g", "t", "h", " ", "o", "v", "e", "r", "a", "l", "l">>)
    @@ ("loa" :> <<"l", "o", "a">>)
    @@ ("beam" :> <<"b", "e", "a", "m">>)
    @@ ("draft" :> <<"d", "r", "a", "f", "t">>)
    @@ ("hull" :> <<"h", "u", "l", "l">>)
    @@ ("engine" :> <<"e", "n", "g", "i", "n", "e">>)
    @@ ("knots" :> <<"k", "n", "o", "t", "s">>)
    @@ ("nautical" :> <<"n", "a", "u", "t", "i", "c", "a", "l">>)
    @@ ("marina" :> <<"m", "a", "r", "i", "n", "a">>)
    @@ ("cruiser" :> <<"c", "r", "u", "i", "s", "e", "r">>)
    @@ ("sportfish" :> <<"s", "p", "o", "r", "t", "f", "i", "s", "h">>)
    @@ ("trawler" :> <<"t", "r", "a", "w", "l", "e", "r">>)
    @@ ("express" :> <<"e", "x", "p", "r", "e", "s", "s">>)
    @@ ("flybridge" :> <<"f", "l", "y", "b", "r", "i", "d", "g", "e">>)
    @@ ("cockpit" :> <<"c", "o", "c", "k", "p", "i", "t">>)
    @@ ("galley" :> <<"g", "a", "l", "l", "e", "y">>)
    @@ ("cabin" :> <<"c", "a", "b", "i", "n">>)
    @@ ("berth" :> <<"b", "e", "r", "t", "h">>)
    @@ ("stateroom" :> <<"s", "t", "a", "t", "e", "r", "o", "o", "m">>)
    @@ ("helm" :> <<"h", "e", "l", "m">>)
    @@ ("/boats/" :> <<"/", "b", "o", "a", "t", "s", "/">>)
    @@ ("/yachts/" :> <<"/", "y", "a", "c", "h", "t", "s", "/">>)
    @@ ("/inventory/" :> <<"/", "i", "n", "v", "e", "n", "t", "o", "r", "y", "/">>)
    @@ ("/listings/" :> <<"/", "l", "i", "s", "t", "i", "n", "g", "s", "/">>)

\* the terms lowerHtml.includes finds in the text of a page
lowered(lowerHtml) == {term \in DOMAIN spelled : includes(lowerHtml, spelled[term])}
termsOf(html) == lowered(toLowerCase(html))

\* pieces of page text, and the pages made of up to two of them
SitePieces ==
    {<<"Y", "a", "c", "h", "t">>,
     <<"B", "O", "A", "T", "S">>,
     <<"U", "p", "l", "o", "a", "d">>,
     <<"F", "o", "r", " ", "S", "a", "l", "e">>,
     <<"/", "B", "o", "a", "t", "s", "/", "1">>,
     <<"B", "r", "o", "k", "e", "r", "a", "g", "e">>,
     <<"h", "u", "l", "l">>,
     <<"C", "a", "r", "s">>,
     <<"M", "O", "T", "O", "R", " ", "Y", "A", "C", "H", "T", "S">>,
     <<"A", "b", "o", "u", "t", " ", "u", "s">>}

SiteTexts ==
    {<<>>} \cup SitePieces \cup {a \o <<" ">> \o b : a, b \in SitePieces}

SiteInit ==
    /\ fArg \in {[fn |-> "validateYachtSite", html |-> html] : html \in SiteTexts}
    /\ fRet = <<>>
    /\ fPc = "validateYachtSite"

ValidateYachtSite == Call("validateYachtSite", validateYachtSite(termsOf(fArg.html)))

-----------------------------------------------------------------------------

\* genericHeuristicParse on a page of two candidate cards: the first is
\* drawn from GenericCards, the second is a complete listing.

GenericTitles == {<<>>, <<"B", "o", "a", "t">>, SeaRay, FiveThousand \o <<" ">> \o SeaRay}
GenericPrices == {<<>>, FiveThousand, <<"$", "5", "0", "0">>, Sold}
GenericLengths == {10, 19, 20, 200, 5000, 5001}

GenericCards ==
    {[emptyCard EXCEPT !.title = t, !.priceText = p, !.textLength = n, !.img = i] :
        t \in GenericTitles, p \in GenericPrices, n \in GenericLengths, i \in {<<>>, Image}}

GenericDoc(card) ==
    [html |-> HtmlListings,
     cards |-> <<card, [emptyCard EXCEPT !.title = SeaRay, !.priceText = FiveThousand, !.img = Image]>>,
     sd |-> "none",
     adapters |-> [a \in 1..Len(SITE_ADAPTERS) |-> "none"],
     generic |-> TRUE]

GenericInit ==
    /\ fArg \in {[fn |-> "genericHeuristicParse", card |-> card] : card \in GenericCards}
    /\ fRet = <<>>
    /\ fPc = "genericHeuristicParse"

GenericHeuristicParse ==
    Call("genericHeuristicParse", [yachts |-> genericHeuristicParse(GenericDoc(fArg.card), 1)])

-----------------------------------------------------------------------------

\* A handleFetch run that has pooled many records: the run is suspended at
\* the fetch of its last pagination page, with the records of the pages
\* scanned so far in allYachts.

MaxPooled == 12

\* a listings page of n cards under different titles
ListingsDoc(n) ==
    [html |-> HtmlListings,
     cards |-> [i \in 1..n |-> [emptyCard EXCEPT !.title = SeaRay \o <<" ">> \o toDigits(i),
                                                 !.priceText = FiveThousand, !.img = Image]],
     sd |-> "none",
     adapters |-> [a \in 1..Len(SITE_ADAPTERS) |-> IF a = 1 THEN "cards" ELSE "none"],
     generic |-> FALSE]

\* result.yachts of the entered address, then those of a page that lists the
\* first m boats again
PooledYachts(n, m) ==
    parseYachtListings(ListingsDoc(n), BoatsUrl, 1).yachts
        \o parseYachtListings(ListingsDoc(m), HomeUrl, 1).yachts

DisplayInit ==
    /\ parsedYachts = <<>>
    /\ totalYachtsFound = 0
    /\ selectedYachts = {}
    /\ currentEditIndex = nullIndex
    /\ disabled = TRUE
    /\ clock = 1
    /\ \E n \in 1..MaxPooled, m \in {0, 2} :
           /\ lastParseDebug = parseYachtListings(ListingsDoc(m), HomeUrl, 1).lastParseDebug
           /\ runs = [r \in Runs |->
                         IF r = 1
                         THEN [idleRun EXCEPT !.pc = "pagination", !.url = BoatsUrl,
                                              !.allYachts = PooledYachts(n, m),
                                              !.pagesScanned = IF m = 0 THEN <<BoatsUrl>>
                                                               ELSE <<BoatsUrl, HomeUrl>>,
                                              !.paginationLinks = <<Page2Url>>]
                         ELSE idleRun]
    /\ started = 1
    /\ clicks = 0

-----------------------------------------------------------------------------

\* A handleFetch run from a home page that links to the inventory page and,
\* in its pagination container, to pages of that inventory: the run is
\* suspended at its first secondary fetch, the entered page parsed.

PagingHomes ==
    {[HomePage EXCEPT !.pagination = pagination] :
        pagination \in {<<Page2Url>>, <<BoatsUrl, Page2Url>>, <<Page2Url, BoatsUrl>>}}

PagingInit ==
    /\ parsedYachts = <<>>
    /\ totalYachtsFound = 0
    /\ selectedYachts = {}
    /\ currentEditIndex = nullIndex
    /\ disabled = TRUE
    /\ clock \in 1..MaxClock
    /\ \E page \in PagingHomes :
           /\ lastParseDebug = parseYachtListings(page.doc, HomeUrl, clock).lastParseDebug
           /\ runs = [r \in Runs |->
                         IF r = 1
                         THEN nextInventory(
                                  [idleRun EXCEPT !.pc = "main", !.url = HomeUrl,
                                                  !.allYachts = lastParseDebug.yachts,
                                                  !.pagesScanned = <<HomeUrl>>,
                                                  !.inventoryLinks = discoverInventoryLinks(page, HomeUrl),
                                                  !.paginationLinks = discoverPaginationLinks(page, HomeUrl)], 0)
                         ELSE idleRun]
    /\ started = 1
    /\ clicks = 0

-----------------------------------------------------------------------------

\* Specifications

InitDedup == DedupInit /\ ConfIdle /\ ParseIdle /\ PageInit /\ FnIdle
NextDedup == Dedup \/ DedupAgain
SpecDedup == InitDedup /\ [][NextDedup]_vars

InitConfidence == ConfInit /\ DedupIdle /\ ParseIdle /\ PageInit /\ FnIdle
NextConfidence ==
    AddTitle \/ AddImage \/ AddPrice \/ AddYear \/ AddLength \/ AddType \/ AddLocation
SpecConfidence == InitConfidence /\ [][NextConfidence]_vars

InitParse == ParseInit /\ DedupIdle /\ ConfIdle /\ PageInit /\ FnIdle
NextParse == ParseYachtListings
SpecParse == InitParse /\ [][NextParse]_vars

InitValidate == ValidateInit /\ DedupIdle /\ ConfIdle /\ ParseIdle /\ PageInit
NextValidate == ValidateYacht
SpecValidate == InitValidate /\ [][NextValidate]_vars

InitPrice == PriceInit /\ DedupIdle /\ ConfIdle /\ ParseIdle /\ PageInit
NextPrice == ExtractPrice
SpecPrice == InitPrice /\ [][NextPrice]_vars

InitSpecs == SpecsInit /\ DedupIdle /\ ConfIdle /\ ParseIdle /\ PageInit
NextSpecs == ExtractSpecs
SpecSpecs == InitSpecs /\ [][NextSpecs]_vars

InitSite == SiteInit /\ DedupIdle /\ ConfIdle /\ ParseIdle /\ PageInit
NextSite == ValidateYachtSite
SpecSite == InitSite /\ [][NextSite]_vars

InitGeneric == GenericInit /\ DedupIdle /\ ConfIdle /\ ParseIdle /\ PageInit
NextGeneric == GenericHeuristicParse
SpecGeneric == InitGeneric /\ [][NextGeneric]_vars

InitPaging == PagingInit /\ DedupIdle /\ ConfIdle /\ ParseIdle /\ FnIdle
NextPaging ==
    \/ InventoryFetched
    \/ InventoryFailed
    \/ InventoryPageFetched
    \/ InventoryPageFailed
    \/ PaginationFetched
    \/ PaginationFailed
SpecPaging == InitPaging /\ [][NextPaging]_vars

InitDisplay == DisplayInit /\ DedupIdle /\ ConfIdle /\ ParseIdle /\ FnIdle
NextDisplay == PaginationFetched \/ PaginationFailed \/ removeYacht
SpecDisplay == InitDisplay /\ [][NextDisplay]_vars

Init == PageInit /\ DedupIdle /\ ConfIdle /\ ParseIdle /\ FnIdle
Next ==
    \/ ClickFetch \/ PressEnter
    \/ MainFetched \/ MainFailed
    \/ InventoryFetched \/ InventoryFailed
    \/ InventoryPageFetched \/ InventoryPageFailed
    \/ PaginationFetched \/ PaginationFailed
    \/ toggleYachtSelection \/ toggleSelectAll \/ removeYacht
    \/ editYacht \/ saveYachtEdit \/ closeModal \/ importSelectedYachts
Spec == Init /\ [][Next]_vars

----------------------------------------------------------------------------
\* Claims

\* ---- parseYachtListings

\* the page passes site validation: three yacht keywords and an inventory marker
PassesValidation(html) ==
    /\ Cardinality({k \in 1..Len(YACHT_KEYWORDS) : YACHT_KEYWORDS[k] \in html}) >= 3
    /\ html \cap INVENTORY_MARKERS # {}

Parsed == pPc = "parsed"
ParsedValid == pPc = "parsed" /\ PassesValidation(pDoc.html)

\* the calls of one kind in a trace, and the positions of a call
CallsOf(trace, kind) == {trace[i][2] : i \in {j \in 1..Len(trace) : trace[j][1] = kind}}
PosOf(trace, call) == {i \in 1..Len(trace) : trace[i] = call}

Structured == extractStructuredData(pDoc, 1)
Detects(a) == pDoc.adapters[a] # "none"
Yields(a) == adapterParse(a, pDoc, 1) # <<>>
Adapters == 1..Len(SITE_ADAPTERS)

\* the strategy a record's source tag belongs to
StrategyOf(source) ==
    IF source \in {"json-ld", "microdata"} THEN "structured"
    ELSE IF source = "generic" THEN "generic" ELSE "adapters"

\* C1: on a validated page the strategies run in the order structured data,
\* adapters, generic parser and stop at the first that yields a record: no
\* adapter is detected or parsed when structured data yields a record, the
\* generic parser runs exactly when structured data yields nothing and no
\* adapter both detects and yields, and the records handed to the filter
\* are those of one strategy.
C1_StrategyOrder ==
    ParsedValid =>
        LET trace == pResult.trace
            generic == <<"genericHeuristicParse", 0>>
        IN  /\ trace # <<>> /\ trace[1] = <<"extractStructuredData", 0>>
            /\ PosOf(trace, <<"extractStructuredData", 0>>) = {1}
            /\ Structured # <<>> => Len(trace) = 1 /\ pResult.candidates = Structured
            /\ Structured = <<>> => <<"detect", 1>> \in {trace[i] : i \in 1..Len(trace)}
            /\ PosOf(trace, generic) # {}
                 <=> (Structured = <<>> /\ \A a \in Adapters : ~Detects(a) \/ ~Yields(a))
            /\ PosOf(trace, generic) \subseteq {Len(trace)}
            /\ PosOf(trace, generic) # {} =>
                   /\ pResult.candidates = genericHeuristicParse(pDoc, 1)
                   /\ \A a \in CallsOf(trace, "parse") : ~Yields(a)
            /\ \A i, j \in 1..Len(pResult.candidates) :
                   /\ StrategyOf(pResult.candidates[i].source) = StrategyOf(pResult.candidates[j].source)
                   /\ (pResult.candidates[i].source \in {"json-ld", "microdata"}
                       \/ pResult.candidates[i].source = pResult.candidates[j].source)

\* structured data yields records on a page where an adapter would have
\* yielded some too and the generic selectors match: only structured data ran
C1_Witness ==
    /\ ParsedValid
    /\ Structured # <<>>
    /\ \E a \in Adapters : Detects(a) /\ Yields(a)
    /\ genericHeuristicParse(pDoc, 1) # <<>>
    /\ pResult.trace = <<<<"extractStructuredData", 0>>>>
    /\ Len(pResult.yachts) > 0

\* the calls the adapter walk makes when it ends after adapter last
RECURSIVE WalkUpTo(_, _)
WalkUpTo(a, last) ==
    IF a > last THEN <<>>
    ELSE <<<<"detect", a>>>> \o (IF Detects(a) THEN <<<<"parse", a>>>> ELSE <<>>) \o WalkUpTo(a + 1, last)

Winners == {a \in Adapters : Detects(a) /\ Yields(a)}
Winner == CHOOSE a \in Winners : \A b \in Winners : a <= b

AdapterCalls == SelectSeq(pResult.trace, LAMBDA c : c[1] \in {"detect", "parse"})

\* C2: the adapters are walked in registration order; the records handed on
\* are those of the first adapter that detects and yields; an adapter that
\* detects and yields nothing does not end the walk; nothing is called after
\* the winning adapter.
C2_AdapterWalk ==
    (ParsedValid /\ Structured = <<>>) =>
        IF Winners # {}
        THEN /\ AdapterCalls = WalkUpTo(1, Winner)
             /\ pResult.candidates = adapterParse(Winner, pDoc, 1)
        ELSE AdapterCalls = WalkUpTo(1, Len(SITE_ADAPTERS))

\* the first adapter detects and yields nothing, a later one wins, and one
\* after the winner would have detected and yielded too
C2_Witness ==
    /\ ParsedValid /\ Structured = <<>>
    /\ Winners # {}
    /\ \E a \in Adapters : a < Winner /\ Detects(a) /\ ~Yields(a)
    /\ \E b \in Winners : b > Winner
    /\ AdapterCalls = WalkUpTo(1, Winner)
    /\ Len(pResult.yachts) > 0

\* a record with neither a title nor a truthy priceRaw
NoTitleNoPrice(y) == y.title = <<>> /\ (y.priceRaw.kind # "number" \/ y.priceRaw = N(0))

\* the score of a record by the weights of the formula
Weights(y) ==
      (IF y.title # <<>> THEN 35 ELSE 0) + (IF Len(y.images) > 0 THEN 25 ELSE 0)
    + (IF y.priceRaw.kind = "number" /\ ~y.priceRaw.neg /\ (y.priceRaw.w > 0 \/ y.priceRaw.c > 0)
       THEN 15 ELSE 0)
    + (IF y.year # <<>> THEN 10 ELSE 0) + (IF y.length # "" THEN 5 ELSE 0)
    + (IF y.type # "" THEN 5 ELSE 0) + (IF y.location # "" THEN 5 ELSE 0)
    + (IF y.source \in {"json-ld", "microdata", "red-ensign"} THEN 10 ELSE 0)

\* the candidates the filter removes, in order
Removed == SelectSeq(pResult.candidates, LAMBDA y : Weights(y) < 40 \/ NoTitleNoPrice(y))

\* the filter's reasons that say 'No title or price'
ReasonsNoTitleOrPrice ==
    SelectSeq(lastParseDebug.debug.rejectionReasons, LAMBDA r : r = <<"No title or price">>)

\* C3 as claimed: no returned record is without title and priceRaw, and each
\* such candidate is counted in debug.rejected under 'No title or price'.
C3_NoTitleNoPriceReason ==
    ParsedValid =>
        /\ \A i \in 1..Len(pResult.yachts) : ~NoTitleNoPrice(pResult.yachts[i])
        /\ Len(ReasonsNoTitleOrPrice) = Len(SelectSeq(pResult.candidates, NoTitleNoPrice))

\* C3: no returned record is without title and priceRaw; each such
\* candidate is counted in debug.rejected, under 'No title or price' when it
\* scores at least 40 and under 'Low confidence (n): No title' when it
\* scores less.
C3_NoTitleNoPriceRemoved ==
    ParsedValid =>
        LET debug == lastParseDebug.debug
        IN  /\ \A i \in 1..Len(pResult.yachts) : ~NoTitleNoPrice(pResult.yachts[i])
            /\ debug.rejected = Len(Removed)
            /\ Len(debug.rejectionReasons) = Len(Removed)
            /\ \A i \in 1..Len(Removed) :
                   NoTitleNoPrice(Removed[i]) =>
                       debug.rejectionReasons[i] =
                           IF Weights(Removed[i]) >= 40 THEN <<"No title or price">>
                           ELSE <<"Low confidence (", Weights(Removed[i]), "): ",
                                  <<"N", "o", " ", "t", "i", "t", "l", "e">>>>

\* a JSON-LD product without name and offer scores 45 and is removed for
\* 'No title or price', next to a product that is returned
C3_Witness ==
    /\ ParsedValid
    /\ \E i \in 1..Len(Removed) :
           /\ NoTitleNoPrice(Removed[i]) /\ Weights(Removed[i]) >= 40
           /\ lastParseDebug.debug.rejectionReasons[i] = <<"No title or price">>
    /\ Len(pResult.yachts) > 0

\* C4: every returned record scores at least 40 whatever strategy made it,
\* and every candidate scoring less is dropped and counted as rejected.
C4_ConfidenceGate ==
    ParsedValid =>
        LET debug == lastParseDebug.debug
            low == SelectSeq(pResult.candidates, LAMBDA y : Weights(y) < 40)
        IN  /\ \A i \in 1..Len(pResult.yachts) :
                   /\ pResult.yachts[i].confidence.overall >= 40
                   /\ Weights(pResult.yachts[i]) >= 40
            /\ debug.attempted = Len(pResult.candidates)
            /\ debug.rejected >= Len(low)
            /\ debug.accepted = Len(pResult.candidates) - debug.rejected
            /\ debug.accepted <= Len(pResult.candidates) - Len(low)
            /\ Len(pResult.yachts) <= debug.accepted

\* an adapter's record with a title alone scores 35 and is dropped, next to
\* a record that is returned
C4_Witness ==
    /\ ParsedValid
    /\ \E i \in 1..Len(pResult.candidates) :
           /\ StrategyOf(pResult.candidates[i].source) = "adapters"
           /\ Weights(pResult.candidates[i]) = 35
    /\ lastParseDebug.debug.rejected = 1
    /\ Len(pResult.yachts) = 1

\* C5: a page failing validation gives no records, the validator's reason
\* as error and no strategy call; a validated page gives error null, also
\* when it gives no records.
C5_ValidationError ==
    Parsed =>
        IF PassesValidation(pDoc.html)
        THEN pResult.error = nullString /\ pResult.trace # <<>>
        ELSE /\ pResult.yachts = <<>>
             /\ pResult.error # nullString
             /\ pResult.error = validateYachtSite(pDoc.html).reason
             /\ pResult.error = lastParseDebug.validation.reason
             /\ pResult.trace = <<>>
             /\ pResult.candidates = <<>>
             /\ lastParseDebug.yachts = <<>>

\* a page with too few keywords whose cards every strategy would have read
C5_Witness ==
    /\ Parsed /\ ~PassesValidation(pDoc.html)
    /\ Structured # <<>>
    /\ \E a \in Adapters : Detects(a) /\ Yields(a)
    /\ pResult.yachts = <<>> /\ pResult.error # nullString

\* a validated page on which every strategy ran and none yielded a record
C5_WitnessEmpty ==
    /\ ParsedValid
    /\ pResult.yachts = <<>> /\ pResult.candidates = <<>>
    /\ pResult.error = nullString

\* ---- deduplicateYachts

\* the dedup key of a record: its detail address when it has one, otherwise
\* its lower-cased trimmed title with its priceRaw (or 0)
KeyOf(y) ==
    IF y.detailUrl # "" THEN <<"detailUrl", y.detailUrl>>
    ELSE <<"title", trim(toLowerCase(y.title)), IF y.priceRaw \in {null, N(0)} THEN N(0) ELSE y.priceRaw>>

\* the indices of the first record of each key, in input order
FirstOfKey(s) == {i \in 1..Len(s) : \A j \in 1..(i - 1) : KeyOf(s[j]) # KeyOf(s[i])}

RECURSIVE Pick(_, _, _)
Pick(s, keep, i) ==
    IF i > Len(s) THEN <<>>
    ELSE (IF i \in keep THEN <<s[i]>> ELSE <<>>) \o Pick(s, keep, i + 1)

\* C6: deduplicateYachts returns exactly the first record of every dedup
\* key, in input order (so one record per key, and the first one).
C6_DedupKeepsFirstPerKey ==
    dPc \in {"once", "twice"} =>
        /\ dOut = Pick(dIn, FirstOfKey(dIn), 1)
        /\ \A i, j \in 1..Len(dOut) : i # j => KeyOf(dOut[i]) # KeyOf(dOut[j])

\* two records without a detail address whose titles differ only in case
\* and surrounding blanks and whose priceRaw is null and 0, and two records
\* sharing a detail address under different titles: the first of each stays
C6_Witness ==
    /\ dPc = "once"
    /\ Len(dIn) = 3
    /\ \/ /\ dIn[1].detailUrl = "" /\ dIn[3].detailUrl = "" /\ dIn[2].detailUrl # ""
          /\ dIn[1].title # dIn[3].title
          /\ dIn[1].priceRaw = null /\ dIn[3].priceRaw = N(0)
       \/ /\ dIn[1].detailUrl = "u1" /\ dIn[3].detailUrl = "u1" /\ dIn[2].detailUrl = "u2"
          /\ dIn[1].title # dIn[3].title
    /\ dOut = <<dIn[1], dIn[2]>>

\* C7: deduplicating an already deduplicated list changes nothing.
C7_DedupIdempotent == dPc = "twice" => dOut2 = dOut

C7_Witness == dPc = "twice" /\ Len(dIn) = 3 /\ Len(dOut) = 2 /\ dOut2 = dOut

\* C8: making one absent scored field present never lowers the score.
C8_ConfidenceMonotone == cPc = "rescored" => cOverall >= cPrev

C8_Witness == cPc = "rescored" /\ cOverall > cPrev /\ cYacht.year = Y2023 /\ cPrev > 0

\* C9: calculateConfidence returns a score between 0 and 100.
C9_ConfidenceInRange == cPc # "off" => cOverall \in 0..100

\* ---- the page

\* the records parseYachtListings has returned to the runs in progress
Pooled == UNION {{runs[r].allYachts[i] : i \in 1..Len(runs[r].allYachts)} : r \in Runs}

\* the records on display
Displayed == {parsedYachts[i] : i \in 1..Len(parsedYachts)}

\* C10: every record parseYachtListings has returned and every record on
\* display, edited by saveYachtEdit or not, carries as confidence.overall the
\* sum of the weights of its present fields and of its source, not a seed.
C10_ConfidenceIsFormula ==
    \A y \in Pooled \cup Displayed : y.confidence.overall = Weights(y)

\* on display are a JSON-LD record scoring 95, not its seed 85, and an
\* adapter record whose title saveYachtEdit has just emptied, which scores
\* 55 where the parse had given it 90
C10_Witness ==
    /\ \E y \in Displayed : y.source = "json-ld" /\ y.confidence.overall = 95
    /\ \E y \in Displayed :
           y.source = "wp-listing-theme" /\ y.title = <<>> /\ y.confidence.overall = 55
    /\ currentEditIndex = nullIndex

\* ---- retention and validation

\* a record with a title or a positive priceRaw
HasTitleOrPrice(y) ==
    y.title # <<>> \/ (y.priceRaw.kind = "number" /\ ~y.priceRaw.neg /\ (y.priceRaw.w > 0 \/ y.priceRaw.c > 0))

\* the fields whose absence is a warning
OptionalFields == {"images", "year", "length", "type", "location"}

\* the optional fields a record lacks
Missing(y) ==
    {f \in OptionalFields :
        \/ f = "images" /\ y.images = <<>>
        \/ f = "year" /\ y.year = <<>>
        \/ f = "length" /\ y.length = ""
        \/ f = "type" /\ y.type = ""
        \/ f = "location" /\ y.location = ""}

IssuesOn(issues, f) == SelectSeq(issues, LAMBDA issue : issue.field = f)

\* the place of a field in the order of the checks
FieldRank(f) ==
    CHOOSE k \in 1..7 : <<"title", "price", "images", "year", "length", "type", "location">>[k] = f

\* C12: validateYacht returns, for every record, a list in which only title
\* and price issues are errors: an empty title gives one title error, an
\* empty price string one price error, a non-empty price with priceRaw 0
\* exactly one price issue and that a warning, each missing optional field
\* exactly one warning and a present one none, in the order title, price,
\* images, year, length, type, location.
C12_ValidateYacht ==
    Returned("validateYacht") =>
        LET y == fArg.yacht
            issues == fRet
        IN  /\ \A k \in 1..Len(issues) :
                   /\ issues[k].field \in {"title", "price"} \cup OptionalFields
                   /\ issues[k].severity \in {"error", "warning"}
                   /\ issues[k].severity = "error" => issues[k].field \in {"title", "price"}
            /\ IssuesOn(issues, "title")
                   = IF y.title = <<>> THEN <<Issue("title", "error")>> ELSE <<>>
            /\ y.price = <<>> => IssuesOn(issues, "price") = <<Issue("price", "error")>>
            /\ y.price # <<>> /\ y.priceRaw = N(0)
                   => IssuesOn(issues, "price") = <<Issue("price", "warning")>>
            /\ \A f \in OptionalFields :
                   IssuesOn(issues, f) = IF f \in Missing(y) THEN <<Issue(f, "warning")>> ELSE <<>>
            /\ \A j, k \in 1..Len(issues) :
                   j < k => FieldRank(issues[j].field) < FieldRank(issues[k].field)

\* a sold record without title or optional fields: its price of 0 is the
\* one price issue, a warning, after the title error and before five warnings
C12_Witness ==
    /\ Returned("validateYacht")
    /\ fArg.yacht.title = <<>>
    /\ fArg.yacht.price = Sold
    /\ fArg.yacht.priceRaw = N(0)
    /\ Missing(fArg.yacht) = OptionalFields
    /\ Len(fRet) = 7
    /\ fRet[1] = Issue("title", "error")
    /\ fRet[2] = Issue("price", "warning")

\* ---- records

\* the ids of a list of records, one per record
IdsDistinct(yachts) ==
    \A i, j \in 1..Len(yachts) : yachts[i].id = yachts[j].id => i = j

\* C13: no two records of the candidate list or of the returned list of one
\* parseYachtListings call have the same id, whatever strategy made them.
C13_UniqueIds ==
    Parsed => IdsDistinct(pResult.candidates) /\ IdsDistinct(pResult.yachts)

\* an address the image-validity rule rejects by its text, and an embedded one
Denylisted(u) == \E k \in 1..Len(excludePatterns) : includes(toLowerCase(u), excludePatterns[k])
Embedded(u) == Len(u) >= 5 /\ SubSeq(u, 1, 5) = <<"d", "a", "t", "a", ":">>

\* C14: no entry of the images of a returned record is a data: address or
\* an address the image-validity rule rejects.
C14_ImagesValid ==
    Parsed =>
        \A i \in 1..Len(pResult.yachts) :
            \A k \in 1..Len(pResult.yachts[i].images) :
                /\ ~Embedded(pResult.yachts[i].images[k])
                /\ ~Denylisted(pResult.yachts[i].images[k])

\* C15: priceRaw of every returned record is null or a number above 0.
C15_PriceRawPositive ==
    Parsed =>
        \A i \in 1..Len(pResult.yachts) :
            pResult.yachts[i].priceRaw = null \/ Positive(pResult.yachts[i].priceRaw)

\* ---- extractPrice

\* the text holds the amount, not followed by a further digit, comma or dot
Holds(text, amount) ==
    \E i \in 1..Len(text) :
        /\ i + Len(amount) - 1 <= Len(text)
        /\ SubSeq(text, i, i + Len(amount) - 1) = amount
        /\ (i + Len(amount) <= Len(text) => ~(IsDigit(text[i + Len(amount)])
                                               \/ text[i + Len(amount)] \in {",", "."}))

EuropeanEuros ==
    RealEuroSign \o <<"1", ".", "2", "3", "4", ".", "5", "6", "7", ",", "0", "0">>
GroupedDollars == <<"$", "1", ",", "2", "3", "4", ",", "5", "6", "7">>

\* C16: a text holding the euro amount 1.234.567,00 in European grouping
\* gives raw 1234567 and the currency EUR.
C16_EuropeanEuros ==
    (Returned("extractPrice") /\ Holds(fArg.text, EuropeanEuros)) =>
        fRet.raw = N(1234567) /\ fRet.currency = "EUR"

\* C17: a text holding the dollar amount $1,234,567 gives raw 1234567 and
\* the currency USD.
C17_GroupedDollars ==
    (Returned("extractPrice") /\ Holds(fArg.text, GroupedDollars)) =>
        fRet.raw = N(1234567) /\ fRet.currency = "USD"

\* the texts of one amount with a currency sign or word
Priced(amounts) ==
    {sign \o amount : sign \in PriceSigns \ {<<>>}, amount \in amounts}
        \cup {amount \o word : amount \in amounts, word \in PriceWords}

\* C18: a text whose one amount is 999, or another below 1000, gives raw
\* null, the empty formatted string and the currency null; a text whose one
\* amount is 1000 gives raw 1000.
C18_MagnitudeBoundary ==
    Returned("extractPrice") =>
        /\ fArg.text \in Priced({<<"9", "9", "9">>, <<"9", "9", "9", ",", "0", "0">>,
                                 <<"9", "9", "9", ".", "5", "0">>, <<"5", "0", "0">>})
               => fRet = NoPrice
        /\ fArg.text \in Priced({<<"1", "0", "0", "0">>, <<"1", ",", "0", "0", "0">>})
               => fRet.raw = N(1000)

\* ---- extractSpecs

Secondary(run) == run.pc \in {"inventory", "inventoryPage", "pagination"}

PageAt(run) ==
    CASE run.pc = "inventory" -> slice(run.inventoryLinks, 5)[run.i + 1]
      [] run.pc = "inventoryPage" -> run.invPagination[run.j + 1]
      [] OTHER -> run.paginationLinks[run.k + 1]

\* the discovered addresses that come after the one awaited in the order of
\* the loops, and are not scanned yet
Todo(run) ==
    LET after(links, n) == SubSeq(links, n + 1, Len(links))
        invPages == IF run.pc = "inventoryPage" THEN after(slice(run.invPagination, 3), run.j + 1) ELSE <<>>
        invs == IF run.pc \in {"inventory", "inventoryPage"}
                THEN after(slice(run.inventoryLinks, 5), run.i + 1) ELSE <<>>
        pags == IF run.pc = "pagination" THEN after(slice(run.paginationLinks, 3), run.k + 1)
                ELSE IF Len(run.allYachts) > 0 THEN slice(run.paginationLinks, 3) ELSE <<>>
    IN  SelectSeq(invPages \o invs \o pags, LAMBDA u : ~includesUrl(run.pagesScanned, u))

\* the run r goes on after the failure of the page it awaited
GoesOn(r) ==
    LET before == runs[r]
        after == runs'[r]
        kept == deduplicateYachts(before.allYachts)
    IN  /\ Secondary(before)
        /\ after # before
        /\ IF Todo(before) # <<>>
           THEN /\ Secondary(after)
                /\ PageAt(after) = Head(Todo(before))
                /\ Todo(after) = Tail(Todo(before))
                /\ after.allYachts = before.allYachts
                /\ after.pagesScanned = before.pagesScanned
                /\ after.failed = Append(before.failed, PageAt(before))
                /\ UNCHANGED <<stateVars, disabled>>
           ELSE /\ after = idleRun
                /\ disabled' = FALSE
                /\ IF kept = <<>> THEN UNCHANGED stateVars
                   ELSE /\ parsedYachts' = slice(kept, MAX_LISTINGS_DISPLAY)
                        /\ totalYachtsFound' = Len(kept)
                        /\ selectedYachts' = idsOf(slice(kept, MAX_LISTINGS_DISPLAY))

\* C20: when the fetch of an inventory page or of a pagination page fails,
\* the run is not aborted: the records and the scanned pages of the run are
\* as before, the run awaits the next discovered page that is not scanned
\* yet, and when there is none the records collected are deduplicated and
\* displayed.
C20_SecondaryFailureGoesOn ==
    [][(InventoryFailed \/ InventoryPageFailed \/ PaginationFailed) => \E r \in Runs : GoesOn(r)]_vars

\* after the failed fetch of one pagination page a run awaits the next, with
\* the two records of the entered address pooled
C20_Witness ==
    \E r \in Runs :
        /\ runs[r].pc = "pagination"
        /\ runs[r].failed = <<runs[r].paginationLinks[1]>>
        /\ PageAt(runs[r]) = runs[r].paginationLinks[2]
        /\ runs[r].pagesScanned = <<runs[r].url>>
        /\ Len(runs[r].allYachts) = 2

\* ---- the display

\* the records a run has found when it ends with the step taken: those
\* pooled before, and those of the page it awaited if that was fetched
FoundBy(run) ==
    {deduplicateYachts(run.allYachts)}
        \cup {deduplicateYachts(run.allYachts \o parsedAt(page, PageAt(run), now).yachts) :
                  page \in Pages, now \in clock..MaxClock}

\* the run r ends with the step taken, and displays
Displays(r) ==
    /\ Secondary(runs[r])
    /\ runs'[r] = idleRun
    /\ <<parsedYachts, totalYachtsFound>>' # <<parsedYachts, totalYachtsFound>>

\* C21: when a run ends having found N >= 1 deduplicated records,
\* parsedYachts is the first min(N, MAX_LISTINGS_DISPLAY) of them in order
\* and totalYachtsFound is N.
C21_DisplayCap ==
    [][\A r \in Runs :
           Displays(r) =>
               /\ \E found \in FoundBy(runs[r]) :
                      /\ Len(found) >= 1
                      /\ totalYachtsFound' = Len(found)
                      /\ parsedYachts' = SubSeq(found, 1, min(Len(found), MAX_LISTINGS_DISPLAY))
               /\ Len(parsedYachts') <= MAX_LISTINGS_DISPLAY]_vars

\* a run has ended with more records than are displayed
C21_Witness ==
    /\ \A r \in Runs : runs[r].pc = "idle"
    /\ totalYachtsFound = MAX_LISTINGS_DISPLAY + 2
    /\ Len(parsedYachts) = MAX_LISTINGS_DISPLAY
    /\ selectedYachts = idsOf(parsedYachts)

\* ---- the generic heuristic strategy

\* the records genericHeuristicParse returned for the first candidate card
KeptOf(ret) == {n \in 1..Len(ret.yachts) : ret.yachts[n].id[2] = 0}

InWindow(card) == card.textLength >= 20 /\ card.textLength <= 5000

\* what the card yields: a heading of 5 to 150 characters that does not
\* start with a currency sign, a price within the bounds
YieldsTitle(card) ==
    /\ Len(card.title) >= 5
    /\ Len(card.title) <= 150
    /\ card.title[1] \notin {"$"} \cup {EURO_SIGN[k] : k \in 1..3} \cup {POUND_SIGN[k] : k \in 1..2}
YieldsPrice(card) ==
    LET inBounds(amount) == amount >= MIN_YACHT_PRICE /\ amount <= MAX_YACHT_PRICE
    IN  /\ card.priceText # <<>>
        /\ card.priceText[1] = "$"
        /\ inBounds(DigitsVal(SelectSeq(card.priceText, IsDigit)))

Occurs(term, text) ==
    \E i \in 1..Len(text) :
        /\ i + Len(term) - 1 <= Len(text)
        /\ \A j \in 1..Len(term) :
               \/ text[i + j - 1] = term[j]
               \/ \E c \in 1..26 : LowerChars[c] = term[j] /\ UpperChars[c] = text[i + j - 1]

KeywordsIn(text) == {k \in 1..Len(YACHT_KEYWORDS) : Occurs(spelled[YACHT_KEYWORDS[k]], text)}
MarkersIn(text) == {m \in INVENTORY_MARKERS : Occurs(spelled[m], text)}

KeywordReason(reason) ==
    reason[1] = "This doesn't appear to be a yacht or boat sales website. Found only"
MarkerReason(reason) ==
    reason[1] = "This doesn't appear to be a yacht listings page. Please navigate to the inventory or boats for sale page."

\* C23: validateYachtSite returns valid exactly when at least
\* MIN_YACHT_KEYWORDS keywords and at least one inventory marker occur in the
\* html whatever the case; with too few keywords the reason is the keyword
\* count's, also when no marker occurs; with enough keywords and no marker
\* it is the marker reason; keywordsFound lists the keywords that occur, in
\* every outcome.
C23_ValidateYachtSite ==
    Returned("validateYachtSite") =>
        LET settled(keywords, markers) ==
                /\ fRet.valid <=> (Cardinality(keywords) >= MIN_YACHT_KEYWORDS /\ markers # {})
                /\ Cardinality(keywords) < MIN_YACHT_KEYWORDS =>
                       /\ KeywordReason(fRet.reason)
                       /\ fRet.reason[2] = Cardinality(keywords)
                /\ (Cardinality(keywords) >= MIN_YACHT_KEYWORDS /\ markers = {}) =>
                       MarkerReason(fRet.reason)
                /\ Len(fRet.keywordsFound) = Cardinality(keywords)
                /\ \A k \in 1..Len(YACHT_KEYWORDS) :
                       k \in keywords <=> \E n \in 1..Len(fRet.keywordsFound) :
                                              fRet.keywordsFound[n] = YACHT_KEYWORDS[k]
        IN  settled(KeywordsIn(fArg.html), MarkersIn(fArg.html))

\* a page on which both checks fail got the keyword-count reason
C23_Witness ==
    /\ Returned("validateYachtSite")
    /\ Cardinality(KeywordsIn(fArg.html)) = 2
    /\ MarkersIn(fArg.html) = {}
    /\ ~fRet.valid
    /\ KeywordReason(fRet.reason)
    /\ Len(fRet.keywordsFound) = 2

\* ---- the debug counters

\* the candidates the filter keeps, in order
Passed == SelectSeq(pResult.candidates, LAMBDA y : ~(Weights(y) < 40 \/ NoTitleNoPrice(y)))

\* two records deduplicateYachts takes for the same listing: the same detail
\* address, or without one the same title (case and outer blanks apart) and
\* the same priceRaw (none is 0)
SameListing(a, b) ==
    IF a.detailUrl # "" \/ b.detailUrl # "" THEN a.detailUrl = b.detailUrl
    ELSE /\ trim(toLowerCase(a.title)) = trim(toLowerCase(b.title))
         /\ (IF Truthy(a.priceRaw) THEN a.priceRaw ELSE N(0))
              = (IF Truthy(b.priceRaw) THEN b.priceRaw ELSE N(0))

DuplicatesIn(yachts) == {p \in (1..Len(yachts)) \X (1..Len(yachts)) :
                            p[1] < p[2] /\ SameListing(yachts[p[1]], yachts[p[2]])}

\* C24: after every run of parseYachtListings debug.attempted is
\* debug.accepted + debug.rejected, rejectionReasons has debug.rejected
\* entries, only the candidates the quality filter removes are counted as
\* rejected, and the records returned are at most debug.accepted, fewer
\* exactly when duplicates were dropped.
C24_DuplicatesNotRejected ==
    pPc = "parsed" =>
        LET debug == lastParseDebug.debug
        IN  /\ debug.attempted = Len(pResult.candidates)
            /\ debug.attempted = debug.accepted + debug.rejected
            /\ Len(debug.rejectionReasons) = debug.rejected
            /\ debug.rejected = Len(Removed)
            /\ debug.accepted = Len(Passed)
            /\ Len(pResult.yachts) <= debug.accepted
            /\ Len(pResult.yachts) < debug.accepted <=> DuplicatesIn(Passed) # {}

\* a run that dropped a duplicate and rejected a candidate
C24_Witness ==
    /\ pPc = "parsed"
    /\ DuplicatesIn(Passed) # {}
    /\ lastParseDebug.debug.rejected >= 1
    /\ lastParseDebug.debug.attempted > lastParseDebug.debug.accepted
    /\ Len(pResult.yachts) < lastParseDebug.debug.accepted

\* ---- the debug report

\* the address a run is fetching
Awaited(run) == IF run.pc = "main" THEN run.url ELSE PageAt(run)

\* a step in which a fetched page is parsed
Parses == MainFetched \/ InventoryFetched \/ InventoryPageFetched \/ PaginationFetched

\* the report is that of the parse the run made of the page it awaited, and
\* nothing else
Reports(before, after, report) ==
    /\ report.url = Awaited(before)
    /\ \E page \in Pages, now \in clock..MaxClock :
           /\ report.validation = validateYachtSite(page.doc.html)
           /\ report.debug.attempted = Len(parsedAt(page, report.url, now).candidates)
           /\ report.yachts = parsedAt(page, report.url, now).yachts
    /\ report.debug.attempted = report.debug.accepted + report.debug.rejected
    /\ Len(report.debug.rejectionReasons) = report.debug.rejected
    /\ Len(report.yachts) <= report.debug.accepted
    /\ ~report.validation.valid => report.yachts = <<>> /\ report.debug = emptyDebug
    /\ \A n \in 1..Len(report.yachts) : report.yachts[n].sourceUrl = report.url
    /\ after.pc # "idle" =>
           after.allYachts = (IF before.pc = "main" THEN <<>> ELSE before.allYachts) \o report.yachts

InProgress == {r \in Runs : runs[r].pc # "idle"}

\* C26: at most one run of handleFetch is in progress at any time.
C26_OneRunAtATime == Cardinality(InProgress) <= 1

\* ---- the record being edited

\* C27: whenever currentEditIndex is not null it is an index of a record of
\* parsedYachts.
C27_EditIndexValid ==
    currentEditIndex # nullIndex => currentEditIndex[1] < Len(parsedYachts)

\* ---- the selection

\* the run r ends with the step taken
Ends(r) == runs[r].pc # "idle" /\ runs'[r].pc = "idle"

\* C28: every id in selectedYachts is the id of a record in parsedYachts; a
\* run that ends either leaves the page as it is or selects exactly the
\* records it displays; removeYacht takes the id of the record it removes
\* out of the selection and leaves the rest of the selection alone.
C28_SelectionDisplayed ==
    /\ [](selectedYachts \subseteq idsOf(parsedYachts))
    /\ [][/\ \A r \in Runs :
                 Ends(r) => \/ UNCHANGED stateVars
                            \/ Len(parsedYachts') >= 1 /\ selectedYachts' = idsOf(parsedYachts')
          /\ removeYacht =>
                 \E index \in 0..(Len(parsedYachts) - 1) :
                     /\ parsedYachts' = splice(parsedYachts, index)
                     /\ parsedYachts[index + 1].id \notin selectedYachts'
                     /\ selectedYachts' = selectedYachts \ {parsedYachts[index + 1].id}]_vars

\* a record was removed and another unselected: some of the displayed
\* records are selected, not all
C28_Witness ==
    /\ totalYachtsFound > Len(parsedYachts)
    /\ selectedYachts # {}
    /\ selectedYachts # idsOf(parsedYachts)
    /\ selectedYachts \subseteq idsOf(parsedYachts)
    /\ clicks = 2

\* ---- the counts

\* C29: totalYachtsFound - parsedYachts.length is the number of found
\* listings the display cap hides.
C29_NotShownIsHidden ==
    totalYachtsFound - Len(parsedYachts)
        = IF totalYachtsFound > MAX_LISTINGS_DISPLAY THEN totalYachtsFound - MAX_LISTINGS_DISPLAY ELSE 0

\* ---- the pages of a run

\* C30: a run does not fetch an address again: the address it awaits is
\* none of those it has scanned and none of those whose fetch failed.
C30_NoRefetch ==
    \A r \in Runs :
        Secondary(runs[r]) =>
            /\ ~includesUrl(runs[r].pagesScanned, PageAt(runs[r]))
            /\ ~includesUrl(runs[r].failed, PageAt(runs[r]))

====
